---- MODULE Spec2Model ----
(***************************************************************************)
(* State-machine model of the reconstruction and metrics engine of         *)
(* src/src/trainmind/fitfilerepair.py: the sensor gap-filler, the          *)
(* segment-plan power synthesizer, the power->speed model with its         *)
(* smoothing pass, and the generators the jitter is drawn from.            *)
(*                                                                         *)
(* Numbers.  Python floats are modelled by exact rationals <<num, den>>    *)
(* (den > 0, lowest terms).  Timestamps are integers counting ticks of     *)
(* 1/TimeDen second.  Speeds found by the bisection are integers counting  *)
(* 1/SpeedDen m/s.  A draw of a generator is a point of JitterGrid, the    *)
(* value 2*random()-1 of the underlying random() in [0,1); uniform(-a, a)  *)
(* is a times that point.  Lists are 1-based here and 0-based in Python.   *)
(***************************************************************************)
EXTENDS Integers, Sequences, FiniteSets, TLC

\* ------------------------------------------------------------- bounds
\* longest list handed to _interp_with_jitter in the direct-call machine
MaxLen == 4
\* most samples of a recording handed to fill_missing_hr_and_cadence
MaxRows == 2
\* how often the same call is made
MaxCalls == 2
\* most samples of a recording handed to the power and speed stages
MaxSamples == 3
\* most segments of a plan
MaxSegs == 2
\* most samples of a recording a run of main() loads
MaxMainRows == 1
\* ticks per second of the timestamp grid
TimeDen == 5
\* grid points per m/s of the speeds the bisection works on
SpeedDen == 8

\* ------------------------------------------------------ optional values
\* Python's None, and a present value v
None == << >>
Some(v) == << v >>
IsNone(x) == x = None
Val(x) == x[1]

\* ------------------------------------------------------------ rationals
Abs(i) == IF i < 0 THEN -i ELSE i

\* the largest and the least element of a set of integers
Max(S) == CHOOSE x \in S : \A y \in S : y <= x
Min(S) == CHOOSE x \in S : \A y \in S : x <= y

RECURSIVE GCD(_, _)
GCD(a, b) == IF b = 0 THEN a ELSE GCD(b, a % b)

Norm(n, d) ==
    LET g == GCD(Abs(n), d) IN << n \div g, d \div g >>

RatOf(i) == << i, 1 >>
RatAdd(x, y) == Norm(x[1] * y[2] + y[1] * x[2], x[2] * y[2])
RatSub(x, y) == Norm(x[1] * y[2] - y[1] * x[2], x[2] * y[2])
RatMul(x, y) == Norm(x[1] * y[1], x[2] * y[2])
\* x / y for y > 0
RatDiv(x, y) == Norm(x[1] * y[2], x[2] * y[1])
RatLeq(x, y) == x[1] * y[2] <= y[1] * x[2]
RatLt(x, y) == x[1] * y[2] < y[1] * x[2]
RatMax(x, y) == IF RatLeq(x, y) THEN y ELSE x
RatMin(x, y) == IF RatLeq(x, y) THEN x ELSE y

\* Python 3 round() of a float: to the nearest integer, ties to the even one
round(x) ==
    LET q == x[1] \div x[2]
        r == x[1] - q * x[2]
    IN  IF 2 * r < x[2] THEN q
        ELSE IF 2 * r > x[2] THEN q + 1
        ELSE IF q % 2 = 0 THEN q ELSE q + 1

\* Python int() of a float n/d: truncation toward zero
int(n, d) == IF n >= 0 THEN n \div d ELSE -((-n) \div d)

VARIABLES
    twister,        \* seed -> the part of that seed's output stream drawn so far
    random_pos,     \* number of draws made from the module-level generator
    icall,          \* arguments of the direct call of _interp_with_jitter, or None
    iout,           \* the results of that call, one per time it was made
    fcall,          \* arguments of the call of fill_missing_hr_and_cadence, or None
    fout,           \* the results of that call, one per time it was made
    SEGMENTS,       \* the module-level segment plan
    POWER_JITTER_W, \* the module-level jitter amplitude of the power
    cfg,            \* the parameters main() passes to the stages
    pc,             \* per run of main(): the stage it has completed
    file,           \* per run: the rows load_hr_cad_speed returned
    run_rows,       \* per run: main's variable rows
    run_pw,         \* per run: the dense array of build_power_series
    run_usable_secs,\* per run: usable_secs of build_power_series
    run_time_to_power,\* per run: main's variable time_to_power
    run_v_raw,      \* per run: the raw speeds of apply_speed_from_power
    run_v_smooth,   \* per run: its smoothed speeds
    flat,           \* the frame of a call of power_to_speed_flat, or << >>
    metric          \* a direct call of a stage with its outcome, or << >>

\* ----------------------------------------------------------- generators
\* the values a single draw 2*random()-1 can take on the model's grid
JitterGrid == {-1, 0, 1}

\* rng.uniform(-amp, amp) on a generator whose output stream is `stream` and
\* which has already been drawn from `pos` times
uniform(stream, pos, amp) == amp * stream[pos + 1]

\* the module-level generator of `random` is seeded by the operating system
\* when the module is imported; OsSeed names that stream
OsSeed == 0

\* a generator that takes its seed from the clock instead: every construction
\* begins another stream
Random_unseeded(seed) == [seed |-> OsSeed - 1 - Len(iout) - Len(fout), pos |-> 0]

\* random.Random(seed): a new generator object at the start of the stream
\* that belongs to its seed
Random(seed) == [seed |-> seed, pos |-> 0]

rngVars == << twister, random_pos >>

\* what earlier draws have shown of the output stream of `seed`
Shown(seed) == IF seed \in DOMAIN twister THEN twister[seed] ELSE << >>

\* the output streams a generator of `seed` can have, given what earlier
\* draws have already shown of it, long enough for `upto` draws
Streams(seed, upto) ==
    LET pre == Shown(seed)
        ext == upto - Len(pre)
    IN  IF ext <= 0 THEN { pre }
        ELSE { pre \o e : e \in [1..ext -> JitterGrid] }

\* the streams shown so far, after `stream` was seen of `seed`
Reveal(tw, seed, stream) ==
    [s \in DOMAIN tw \cup {seed} |->
        IF s = seed
        THEN (IF s \in DOMAIN tw /\ Len(tw[s]) >= Len(stream) THEN tw[s] ELSE stream)
        ELSE tw[s]]

\* ------------------------------------------------- _interp_with_jitter
\* known = [i for i, v in enumerate(vals) if v is not None]
known_of(vals) ==
    SelectSeq([i \in 1..Len(vals) |-> i], LAMBDA i : ~IsNone(vals[i]))

\* the closure clamp(x) of _interp_with_jitter
clamp(bounds, x) ==
    IF IsNone(bounds) THEN x
    ELSE RatMax(RatOf(bounds[1]), RatMin(RatOf(bounds[2]), x))

\* for i in range(i, stop): out[i] = clamp(base + rng.uniform(-amp, amp))
\* st = [out, pos]: the list being filled and the generator's position
RECURSIVE hold_fill(_, _, _, _, _, _, _)
hold_fill(st, i, stop, base, jitter_amp, bounds, stream) ==
    IF i >= stop THEN st
    ELSE LET x == RatAdd(base, RatOf(uniform(stream, st.pos, jitter_amp)))
         IN  hold_fill([out |-> [st.out EXCEPT ![i] = clamp(bounds, x)],
                        pos |-> st.pos + 1],
                       i + 1, stop, base, jitter_amp, bounds, stream)

\* holding the left anchor instead of interpolating
interp_base_hold(va, vb, k, a, gap) == va

\* base = va + (vb - va) * t with t = (k - a) / gap
interp_base(va, vb, k, a, gap) ==
    RatAdd(va, RatMul(RatSub(vb, va), Norm(k - a, gap)))

\* for k in range(k, b): out[k] = clamp(base + rng.uniform(-amp, amp))
RECURSIVE gap_fill(_, _, _, _, _, _, _, _, _)
gap_fill(st, k, a, b, va, vb, jitter_amp, bounds, stream) ==
    IF k >= b THEN st
    ELSE LET base == interp_base(va, vb, k, a, b - a)
             x == RatAdd(base, RatOf(uniform(stream, st.pos, jitter_amp)))
         IN  gap_fill([out |-> [st.out EXCEPT ![k] = clamp(bounds, x)],
                       pos |-> st.pos + 1],
                      k + 1, a, b, va, vb, jitter_amp, bounds, stream)

\* an anchor put through the clamp like the filled positions
anchor_value_clamped(va, bounds) == clamp(bounds, va)

\* the value written at an anchor: out[a] = float(va)
anchor_value(va, bounds) == va

\* for a, b in zip(known, known[1:]), from the j-th pair on
RECURSIVE between_fill(_, _, _, _, _, _, _)
between_fill(st, j, known, vals, jitter_amp, bounds, stream) ==
    IF j >= Len(known) THEN st
    ELSE LET a == known[j]
             b == known[j + 1]
             va == RatOf(Val(vals[a]))
             vb == RatOf(Val(vals[b]))
             st1 == [st EXCEPT !.out[a] = anchor_value(va, bounds)]
             st2 == IF b - a > 1
                    THEN gap_fill(st1, a + 1, a, b, va, vb, jitter_amp, bounds, stream)
                    ELSE st1
         IN  between_fill(st2, j + 1, known, vals, jitter_amp, bounds, stream)

\* zeros put through the clamp
all_unknown_clamped(vals, bounds) ==
    [i \in 1..Len(vals) |-> round(clamp(bounds, RatOf(0)))]

\* the result when no value is known: return [0] * n
all_unknown(vals, bounds) == [i \in 1..Len(vals) |-> 0]

\* return [int(round(x if x is not None else 0)) for x in out]
to_ints(out) ==
    [i \in 1..Len(out) |-> round(IF IsNone(out[i]) THEN RatOf(0) ELSE out[i])]

\* _interp_with_jitter(values, jitter_amp, bounds, seed) run on generator rng
\* whose stream is `stream`; the result and the generator's final position
interp_with_jitter(vals, jitter_amp, bounds, seed, stream) ==
    LET rng == Random(seed)
        n == Len(vals)
        out0 == [i \in 1..n |-> IF IsNone(vals[i]) THEN None ELSE RatOf(Val(vals[i]))]
        known == known_of(vals)
    IN  IF known = << >> THEN [out |-> all_unknown(vals, bounds), pos |-> rng.pos]
        ELSE LET first == known[1]
                 last == known[Len(known)]
                 s1 == hold_fill([out |-> out0, pos |-> rng.pos], 1, first,
                                 RatOf(Val(vals[first])), jitter_amp, bounds, stream)
                 s2 == between_fill(s1, 1, known, vals, jitter_amp, bounds, stream)
                 s3 == [s2 EXCEPT !.out[last] = anchor_value(RatOf(Val(vals[last])), bounds)]
                 s4 == hold_fill(s3, last + 1, n + 1,
                                 RatOf(Val(vals[last])), jitter_amp, bounds, stream)
             IN  [out |-> to_ints(s4.out), pos |-> s4.pos]

\* number of draws one call of _interp_with_jitter makes: one per unknown
\* position, none when nothing is known (the early return)
interp_draws(vals) ==
    IF known_of(vals) = << >> THEN 0
    ELSE Cardinality({i \in 1..Len(vals) : IsNone(vals[i])})

\* ------------------------------------------ fill_missing_hr_and_cadence
\* bounds=(40, 220) of the heart-rate call and bounds=(0, 200) of the
\* cadence call
HR_BOUNDS == << 40, 220 >>
CAD_BOUNDS == << 0, 200 >>

\* the generators' seeds: seed for heart rate, seed + 1 for cadence,
\* seed + 99 for the secondary cadence jitter
hr_seed(seed) == seed
cad_seed(seed) == seed + 1
extra_seed(seed) == seed + 99

\* a secondary jitter of twice the draw
extra_clamp_twice(c, j) ==
    LET r == round(RatAdd(RatOf(c), RatOf(2 * j)))
        lo == CAD_BOUNDS[1]
        hi == CAD_BOUNDS[2]
        m == IF hi < r THEN hi ELSE r
    IN  IF lo > m THEN lo ELSE m

\* cad_filled[i] = int(max(0, min(200, round(c + j))))
extra_clamp(c, j) ==
    LET r == round(RatAdd(RatOf(c), RatOf(j)))
        lo == CAD_BOUNDS[1]
        hi == CAD_BOUNDS[2]
        m == IF hi < r THEN hi ELSE r
    IN  IF lo > m THEN lo ELSE m

\* for i, c in enumerate(cad_filled): if cad_list[i] is not None: ...
\* st = [out, pos]: cad_filled and the position of rng
RECURSIVE extra_jitter(_, _, _, _, _)
extra_jitter(st, i, cad_list, amp, stream) ==
    IF i > Len(cad_list) THEN st
    ELSE IF IsNone(cad_list[i])
         THEN extra_jitter(st, i + 1, cad_list, amp, stream)
         ELSE LET j == uniform(stream, st.pos, amp)
              IN  extra_jitter([out |-> [st.out EXCEPT ![i] = extra_clamp(st.out[i], j)],
                                pos |-> st.pos + 1],
                               i + 1, cad_list, amp, stream)

\* re-assembling from the unfilled lists
new_row_unfilled(row, hr_filled_i, cad_filled_i) == row

\* new_rows.append((ts_list[i], hr_filled[i], cad_filled[i], spd_list[i]))
new_row(row, hr_filled_i, cad_filled_i) ==
    [ts |-> row.ts, hr |-> Some(hr_filled_i), cad |-> Some(cad_filled_i), spd |-> row.spd]

\* fill_missing_hr_and_cadence(rows, hr_jitter_bpm, cad_jitter_rpm,
\* cad_extra_jitter_everywhere, seed), the three generators' streams given
fill_missing_hr_and_cadence(rows, hr_jitter_bpm, cad_jitter_rpm, cad_extra_jitter_everywhere, seed, hr_stream, cad_stream, extra_stream) ==
    LET rng == Random(extra_seed(seed))
        hr_list == [i \in 1..Len(rows) |-> rows[i].hr]
        cad_list == [i \in 1..Len(rows) |-> rows[i].cad]
        hr_filled == interp_with_jitter(hr_list, hr_jitter_bpm, HR_BOUNDS,
                                        hr_seed(seed), hr_stream).out
        cad_filled0 == interp_with_jitter(cad_list, cad_jitter_rpm, CAD_BOUNDS,
                                          cad_seed(seed), cad_stream).out
        cad_filled == IF cad_extra_jitter_everywhere > 0
                      THEN extra_jitter([out |-> cad_filled0, pos |-> rng.pos], 1,
                                        cad_list, cad_extra_jitter_everywhere,
                                        extra_stream).out
                      ELSE cad_filled0
    IN  [i \in 1..Len(rows) |-> new_row(rows[i], hr_filled[i], cad_filled[i])]

\* number of draws the secondary jitter makes: one per known cadence
extra_draws(rows, cad_extra_jitter_everywhere) ==
    IF cad_extra_jitter_everywhere > 0
    THEN Cardinality({i \in 1..Len(rows) : ~IsNone(rows[i].cad)})
    ELSE 0

\* ---------------------------------------------------- build_power_series
\* a segment of the plan is (name, duration in seconds, target watts);
\* powers are whole watts: targets, the jitter amplitude and the points of
\* JitterGrid are integers

\* planned_secs = sum(d for _, d, _ in SEGMENTS)
RECURSIVE planned_secs_from(_, _)
planned_secs_from(segments, j) ==
    IF j > Len(segments) THEN 0
    ELSE segments[j].dur + planned_secs_from(segments, j + 1)

\* a synthesized second without the clamp at zero
power_value_unclamped(target, jitter) == target + jitter

\* pw[offset + s] = max(0.0, target + jitter)
power_value(target, jitter) ==
    IF target + jitter > 0 THEN target + jitter ELSE 0

\* for s in range(s, stop): jitter = random.uniform(-J, J); pw[offset + s] = ...
\* st = [pw, pos]: the dense array (1-based) and the generator's position
RECURSIVE segment_fill(_, _, _, _, _, _, _)
segment_fill(st, s, stop, offset, target, jitter_w, stream) ==
    IF s >= stop THEN st
    ELSE LET jitter == uniform(stream, st.pos, jitter_w)
         IN  segment_fill([pw |-> [st.pw EXCEPT ![offset + s + 1] = power_value(target, jitter)],
                           pos |-> st.pos + 1],
                          s + 1, stop, offset, target, jitter_w, stream)

\* for name, dur, target in SEGMENTS: ...; offset += dur; if offset >= usable_secs: break
RECURSIVE plan_fill(_, _, _, _, _, _, _)
plan_fill(st, j, offset, usable_secs, segments, jitter_w, stream) ==
    IF j > Len(segments) THEN st
    ELSE LET dur == segments[j].dur
             room == usable_secs - offset
             st1 == segment_fill(st, 0, IF dur < room THEN dur ELSE room,
                                 offset, segments[j].target, jitter_w, stream)
         IN  IF offset + dur >= usable_secs THEN st1
             ELSE plan_fill(st1, j + 1, offset + dur, usable_secs, segments, jitter_w, stream)

\* rounding the elapsed seconds to the nearest index
sec_idx_rounded(ts, first) == round(Norm(ts - first, TimeDen))

\* sec_idx = int((ts - first).total_seconds())
sec_idx_of(ts, first) == int(ts - first, TimeDen)

\* time_to_power[ts] = value
Put(map, key, value) ==
    [k \in DOMAIN map \cup {key} |-> IF k = key THEN value ELSE map[k]]

\* a mapping loop that leaves out the samples past usable_secs
RECURSIVE map_rows_within(_, _, _, _, _, _)
map_rows_within(map, i, rows, first, usable_secs, st) ==
    IF i > Len(rows) THEN map
    ELSE LET sec_idx == sec_idx_of(rows[i].ts, first)
         IN  map_rows_within(IF 0 <= sec_idx /\ sec_idx < usable_secs
                             THEN Put(map, rows[i].ts, st.pw[sec_idx + 1])
                             ELSE map,
                             i + 1, rows, first, usable_secs, st)

\* for (ts, *_) in rows: time_to_power[ts] = pw[sec_idx] if in range, else
\* float(SEGMENTS[-1][2]); st carries pw and the last segment's target
RECURSIVE map_rows(_, _, _, _, _, _)
map_rows(map, i, rows, first, usable_secs, st) ==
    IF i > Len(rows) THEN map
    ELSE LET sec_idx == sec_idx_of(rows[i].ts, first)
         IN  map_rows(Put(map, rows[i].ts,
                          IF 0 <= sec_idx /\ sec_idx < usable_secs
                          THEN st.pw[sec_idx + 1]
                          ELSE st.tail),
                      i + 1, rows, first, usable_secs, st)

\* the whole seconds between the first and the last sample, without the
\* second the last sample begins
total_secs_short(rows) == int(rows[Len(rows)].ts - rows[1].ts, TimeDen)

\* total_secs = int((last - first).total_seconds()) + 1
total_secs_of(rows) == int(rows[Len(rows)].ts - rows[1].ts, TimeDen) + 1

\* usable_secs = min(total_secs, planned_secs)
usable_secs_of(rows, segments) ==
    LET total_secs == total_secs_of(rows)
        planned_secs == planned_secs_from(segments, 1)
    IN  IF total_secs < planned_secs THEN total_secs ELSE planned_secs

\* raising for an empty recording only
power_raises_no_rows(rows, segments) == rows = << >>

\* whether build_power_series raises: no rows (RuntimeError), or a sample
\* outside the dense array with no segment to take the target from
\* (SEGMENTS[-1] of an empty plan, IndexError)
power_raises(rows, segments) ==
    \/ rows = << >>
    \/ /\ segments = << >>
       /\ \E i \in 1..Len(rows) :
              LET sec_idx == sec_idx_of(rows[i].ts, rows[1].ts)
              IN  ~(0 <= sec_idx /\ sec_idx < usable_secs_of(rows, segments))

\* build_power_series(rows, start_ts) drawing from generator rng with output
\* stream `stream`: the dense array pw, the map, usable_secs and the
\* generator's position afterwards (rows non-empty, no raise)
build_power_series(rows, segments, jitter_w, rng, stream) ==
    LET first == rows[1].ts
        usable_secs == usable_secs_of(rows, segments)
        st == plan_fill([pw |-> [k \in 1..usable_secs |-> 0], pos |-> rng.pos],
                        1, 0, usable_secs, segments, jitter_w, stream)
        tail == IF segments = << >> THEN 0 ELSE segments[Len(segments)].target
    IN  [pw |-> st.pw,
         time_to_power |-> map_rows(<< >>, 1, rows, first, usable_secs,
                                    [pw |-> st.pw, tail |-> tail]),
         usable_secs |-> usable_secs,
         pos |-> st.pos]

\* the module-level generator of `random`, as build_power_series uses it
TheRandom(pos) == [seed |-> OsSeed, pos |-> pos]

\* --------------------------------------------------- power_to_speed_flat
\* Physical parameters are integers: mass_kg in kg, cda_m2, crr, rho,
\* drivetrain_eff and grade in thousandths, v_max in m/s.  Powers inside the
\* function are milliwatts, speeds are grid points of 1/SpeedDen m/s, and
\* every product is floored to the grid.

\* g = 9.80665, in 1/100000 m/s^2
G_E5 == 980665
\* the cap of the bracket expansion, hi < 60.0, and the floor max(hi, 5.0)
HI_CAP == 60
HI_FLOOR == 5
\* for _ in range(60)
BISECTION_STEPS == 60

\* resistive_power(v) in milliwatts at grid speed v:
\* p_roll = v * (crr * mass_kg * g * cos_th), p_grav = v * (mass_kg * g * sin_th),
\* p_aero = 0.5 * rho * cda_m2 * v**3
resistive_power(v, par) ==
    LET k_roll == (par.crr * par.mass_kg * G_E5) \div 100000
        k_grav == (((par.mass_kg * G_E5) \div 1000) * par.grade) \div 100
        k_aero == (par.rho * par.cda_m2) \div 2000
        p_roll == (v * k_roll) \div SpeedDen
        p_grav == (v * k_grav) \div SpeedDen
        p_aero == ((((v * v) * k_aero) \div (SpeedDen * SpeedDen)) * v) \div SpeedDen
    IN  p_roll + p_grav + p_aero

\* if p_w < 0: the early return without its zero
no_search_strict(p_w) == p_w < 0

\* if p_w <= 0: return 0.0
no_search(p_w) == p_w <= 0

\* while resistive_power(hi) < p_wheel and hi < 60.0
expand_more(hi, p_wheel, par) ==
    resistive_power(hi, par) < p_wheel /\ hi < HI_CAP * SpeedDen

\* a step that multiplies and sets no floor of 5 m/s
expand_step_no_floor(hi) == IF hi > 0 THEN (hi * 3) \div 2 ELSE hi

\* hi *= 1.5 if hi > 0 else 1.0; hi = max(hi, 5.0)
expand_step(hi) ==
    LET grown == IF hi > 0 THEN (hi * 3) \div 2 ELSE hi
    IN  IF grown > HI_FLOOR * SpeedDen THEN grown ELSE HI_FLOOR * SpeedDen

\* the expansion loop
RECURSIVE expand_bracket(_, _, _)
expand_bracket(hi, p_wheel, par) ==
    IF expand_more(hi, p_wheel, par)
    THEN expand_bracket(expand_step(hi), p_wheel, par)
    ELSE hi

\* a bisection step with the comparison the wrong way round
bisect_step_inverted(lo, hi, p_wheel, par) ==
    LET mid == (lo + hi) \div 2
    IN  IF resistive_power(mid, par) < p_wheel THEN << lo, mid >> ELSE << mid, hi >>

\* a bisection step that never lowers hi
bisect_step_keep_hi(lo, hi, p_wheel, par) ==
    LET mid == (lo + hi) \div 2
    IN  IF resistive_power(mid, par) > p_wheel THEN << lo, hi >> ELSE << mid, hi >>

\* mid = 0.5 * (lo + hi); if resistive_power(mid) > p_wheel: hi = mid else: lo = mid
bisect_step(lo, hi, p_wheel, par) ==
    LET mid == (lo + hi) \div 2
    IN  IF resistive_power(mid, par) > p_wheel THEN << lo, mid >> ELSE << mid, hi >>

\* for _ in range(60): the bisection loop.  A step that leaves lo and hi as
\* they are is repeated unchanged by every later step, so the loop's result
\* is known there.
RECURSIVE bisect(_, _, _, _, _)
bisect(lo, hi, steps, p_wheel, par) ==
    IF steps = 0 THEN << lo, hi >>
    ELSE LET b == bisect_step(lo, hi, p_wheel, par)
         IN  IF b = << lo, hi >> THEN b
             ELSE bisect(b[1], b[2], steps - 1, p_wheel, par)

\* return 0.5 * (lo + hi), in m/s
mid_speed(lo, hi) == Norm(lo + hi, 2 * SpeedDen)

\* power_to_speed_flat(p_w, mass_kg, cda_m2, crr, rho, drivetrain_eff, grade,
\* v_max): the speed in m/s as a rational, p_w in watts
power_to_speed_flat(p_w, par) ==
    IF no_search(p_w) THEN RatOf(0)
    ELSE LET p_wheel == p_w * par.drivetrain_eff
             hi == expand_bracket(par.v_max * SpeedDen, p_wheel, par)
             b == bisect(0, hi, BISECTION_STEPS, p_wheel, par)
         IN  mid_speed(b[1], b[2])

\* the defaults of power_to_speed_flat
DefaultPar ==
    [mass_kg |-> 80, cda_m2 |-> 320, crr |-> 4, rho |-> 1225,
     drivetrain_eff |-> 975, grade |-> 0, v_max |-> 25]

\* the parameters main() passes: CDA_M2 = 0.33, the rest as the defaults
MainPar == [DefaultPar EXCEPT !.cda_m2 = 330]

\* power_to_speed_flat is a pure function: its values at the whole-watt
\* powers up to the largest target plus jitter, computed once
SpeedMemo ==
    [par \in {DefaultPar, MainPar} |-> [p_w \in 0..206 |-> power_to_speed_flat(p_w, par)]]

\* ------------------------------------------------- apply_speed_from_power
\* p = float(time_to_power.get(ts, 0.0))
power_at(time_to_power, ts) ==
    IF ts \in DOMAIN time_to_power THEN time_to_power[ts] ELSE 0

\* a trim that cuts the oldest bucket and leaves acc_time as it was
RECURSIVE shrink_window_no_reset(_, _)
shrink_window_no_reset(w, smooth_window_s) ==
    IF RatLt(smooth_window_s, w.acc_time) /\ Len(w.buf) > 1
    THEN LET v0 == w.buf[1][1]
             dt0 == w.buf[1][2]
         IN  IF RatLeq(smooth_window_s, RatSub(w.acc_time, dt0))
             THEN shrink_window_no_reset([buf |-> Tail(w.buf),
                                          acc_time |-> RatSub(w.acc_time, dt0),
                                          cut |-> w.cut], smooth_window_s)
             ELSE LET keep == RatSub(w.acc_time, smooth_window_s)
                      left == RatSub(dt0, keep)
                  IN  [buf |-> << << RatDiv(RatMul(v0, left), dt0), left >> >> \o Tail(w.buf),
                       acc_time |-> w.acc_time,
                       cut |-> Some(dt0)]
    ELSE w

\* while acc_time > smooth_window_s and len(buf) > 1: drop the oldest bucket
\* or cut it to the part inside the window; w = [buf, acc_time, cut], a
\* bucket is << v, dt >>, cut the dt0 that a cut divided by
RECURSIVE shrink_window(_, _)
shrink_window(w, smooth_window_s) ==
    IF RatLt(smooth_window_s, w.acc_time) /\ Len(w.buf) > 1
    THEN LET v0 == w.buf[1][1]
             dt0 == w.buf[1][2]
         IN  IF RatLeq(smooth_window_s, RatSub(w.acc_time, dt0))
             THEN shrink_window([buf |-> Tail(w.buf), acc_time |-> RatSub(w.acc_time, dt0),
                                 cut |-> w.cut], smooth_window_s)
             ELSE LET keep == RatSub(w.acc_time, smooth_window_s)
                      left == RatSub(dt0, keep)
                  IN  [buf |-> << << RatDiv(RatMul(v0, left), dt0), left >> >> \o Tail(w.buf),
                       acc_time |-> smooth_window_s,
                       cut |-> Some(dt0)]
    ELSE w

\* num = sum(v*dt for v, dt in buf)
RECURSIVE weighted_sum(_, _)
weighted_sum(buf, j) ==
    IF j > Len(buf) THEN RatOf(0)
    ELSE RatAdd(RatMul(buf[j][1], buf[j][2]), weighted_sum(buf, j + 1))

\* one pass of the smoothing loop, for sample i; st = [buf, last_t, acc_time,
\* v_smooth] and, after a pass, cut
smooth_step(st, i, rows, v_raw, smooth_window_s) ==
    LET dt == IF i > 1 THEN Norm(rows[i].ts - st.last_t, TimeDen) ELSE RatOf(1)
        w == shrink_window([buf |-> Append(st.buf, << v_raw[i], dt >>),
                            acc_time |-> RatAdd(st.acc_time, dt),
                            cut |-> None],
                           smooth_window_s)
        v == IF RatLt(RatOf(0), w.acc_time)
             THEN RatDiv(weighted_sum(w.buf, 1), w.acc_time)
             ELSE v_raw[i]
    IN  [buf |-> w.buf, last_t |-> rows[i].ts, acc_time |-> w.acc_time,
         v_smooth |-> Append(st.v_smooth, v), cut |-> w.cut]

\* the smoothing loop from sample i on
RECURSIVE smooth_from(_, _, _, _, _)
smooth_from(st, i, rows, v_raw, smooth_window_s) ==
    IF i > Len(rows) THEN st.v_smooth
    ELSE smooth_from(smooth_step(st, i, rows, v_raw, smooth_window_s),
                     i + 1, rows, v_raw, smooth_window_s)

\* v = power_to_speed_flat(p, mass_kg, cda_m2, crr, rho, drivetrain_eff, grade)
speed_for(p, par) ==
    IF par \in DOMAIN SpeedMemo /\ p \in DOMAIN SpeedMemo[par]
    THEN SpeedMemo[par][p]
    ELSE power_to_speed_flat(p, par)

\* v_raw of apply_speed_from_power
raw_speeds(rows, time_to_power, par) ==
    [i \in 1..Len(rows) |-> speed_for(power_at(time_to_power, rows[i].ts), par)]

\* new rows of timestamp and speed only
speed_rows_bare(rows, v_smooth) ==
    [i \in 1..Len(rows) |-> [ts |-> rows[i].ts, hr |-> None, cad |-> None, spd |-> v_smooth[i]]]

\* new_rows: (ts, hr, cad, v_smooth[i]) for each sample
speed_rows(rows, v_smooth) ==
    [i \in 1..Len(rows) |-> [rows[i] EXCEPT !.spd = v_smooth[i]]]

\* apply_speed_from_power(rows, time_to_power, ..., smooth_window_s) for
\* non-empty rows: v_raw, v_smooth and the new rows
apply_speed_from_power(rows, time_to_power, par, smooth_window_s) ==
    LET v_raw == raw_speeds(rows, time_to_power, par)
        v_smooth == smooth_from([buf |-> << >>, last_t |-> rows[1].ts,
                                 acc_time |-> RatOf(0), v_smooth |-> << >>],
                                1, rows, v_raw, RatOf(smooth_window_s))
    IN  [v_raw |-> v_raw,
         v_smooth |-> v_smooth,
         rows |-> speed_rows(rows, v_smooth)]

\* ----------------------------------------------------------- metrics
\* A time_to_power dict is a function from timestamps (ticks) to whole
\* watts; the empty dict is << >>.  What a call does is an outcome: the
\* exception it raises ("" for none) and the value it returns.
Returns(value) == [raised |-> "", value |-> value]
Raises(exception) == [raised |-> exception, value |-> << >>]

\* sorted(time_to_power.items(), key=lambda x: x[0]): the keys in ascending order
RECURSIVE sorted_keys(_)
sorted_keys(keys) ==
    IF keys = {} THEN << >>
    ELSE LET least == CHOOSE k \in keys : \A other \in keys : k <= other
         IN  << least >> \o sorted_keys(keys \ {least})

\* total_j = sum of max(prev_p, 0.0) * dt over consecutive items, from item i
\* on; in watt-ticks
RECURSIVE total_work(_, _, _)
total_work(time_to_power, items, i) ==
    IF i >= Len(items) THEN 0
    ELSE LET prev_p == time_to_power[items[i]]
             dt == items[i + 1] - items[i]
         IN  (IF prev_p > 0 THEN prev_p ELSE 0) * dt
                 + total_work(time_to_power, items, i + 1)

\* kcal = kJ_mech / eff_metabolic / 4.184, the 4.184 in thousandths
KCAL_E3 == 4184

\* estimate_kcal(time_to_power, eff_metabolic), eff_metabolic in thousandths
\* and not negative: kJ_mech / eff_metabolic is a division of Python floats
estimate_kcal(time_to_power, eff_metabolic) ==
    IF DOMAIN time_to_power = {} THEN Returns(0)
    ELSE IF eff_metabolic = 0 THEN Raises("ZeroDivisionError")
    ELSE LET items == sorted_keys(DOMAIN time_to_power)
         IN  Returns(round(Norm(total_work(time_to_power, items, 1) * 1000,
                                TimeDen * eff_metabolic * KCAL_E3)))

\* float(v or 0.0)
speed_or_zero(v) == IF IsNone(v) THEN RatOf(0) ELSE v

\* a threshold of 0 m/s
is_moving_at_all(vv) == RatLt(RatOf(0), vv)

\* vv > 0.5: the sample counts as moving
is_moving(vv) == RatLt(<< 1, 2 >>, vv)

\* the loop of _cum_dist_from_rows from sample i on; st = [dist, v_max,
\* moving_time, last_t]
RECURSIVE cum_dist_from(_, _, _)
cum_dist_from(st, i, rows) ==
    IF i > Len(rows) THEN st
    ELSE LET vv == speed_or_zero(rows[i].spd)
         IN  IF i = 1
             THEN cum_dist_from([st EXCEPT !.v_max = RatMax(st.v_max, vv)], i + 1, rows)
             ELSE LET dt == Norm(rows[i].ts - st.last_t, TimeDen)
                  IN  cum_dist_from(
                          [dist |-> RatAdd(st.dist, RatMul(RatMax(RatOf(0), vv),
                                                           RatMax(RatOf(0), dt))),
                           v_max |-> RatMax(st.v_max, vv),
                           moving_time |-> IF is_moving(vv) THEN RatAdd(st.moving_time, dt)
                                           ELSE st.moving_time,
                           last_t |-> rows[i].ts],
                          i + 1, rows)

\* a variant that rejects an empty recording
cum_dist_from_rows_strict(rows) ==
    IF rows = << >> THEN Raises("RuntimeError")
    ELSE LET st == cum_dist_from([dist |-> RatOf(0), v_max |-> RatOf(0),
                                  moving_time |-> RatOf(0), last_t |-> rows[1].ts], 1, rows)
         IN  Returns([dist |-> st.dist,
                      total_time |-> Norm(rows[Len(rows)].ts - rows[1].ts, TimeDen),
                      moving_time |-> st.moving_time, v_max |-> st.v_max])

\* _cum_dist_from_rows(rows): dist, total_time, moving_time, v_max
cum_dist_from_rows(rows) ==
    IF rows = << >>
    THEN Returns([dist |-> RatOf(0), total_time |-> RatOf(0),
                  moving_time |-> RatOf(0), v_max |-> RatOf(0)])
    ELSE LET st == cum_dist_from([dist |-> RatOf(0), v_max |-> RatOf(0),
                                  moving_time |-> RatOf(0), last_t |-> rows[1].ts], 1, rows)
         IN  Returns([dist |-> st.dist,
                      total_time |-> Norm(rows[Len(rows)].ts - rows[1].ts, TimeDen),
                      moving_time |-> st.moving_time, v_max |-> st.v_max])

\* P[i:j] = float(p) on the 1-based array P, i and j 0-based
slice_assign(P, i, j, p) ==
    [k \in 1..Len(P) |-> IF i < k /\ k <= j THEN p ELSE P[k]]

\* a forward fill that begins one second late: P[i+1:j+1] = float(p)
resample_fill_late(P, m, items, time_to_power) ==
    LET t0 == items[1]
        t2 == IF m < Len(items) THEN items[m + 1] ELSE items[Len(items)]
    IN  slice_assign(P, int(items[m] - t0, TimeDen) + 1, int(t2 - t0, TimeDen) + 1,
                     time_to_power[items[m]])

\* for (t, p), (t2, _p2) in zip(items, items[1:] + [(tN, 0)]): the body for
\* item m: i = int((t - t0).total_seconds()); j = int((t2 - t0).total_seconds());
\* P[i:j] = float(p)
resample_fill(P, m, items, time_to_power) ==
    LET t0 == items[1]
        t2 == IF m < Len(items) THEN items[m + 1] ELSE items[Len(items)]
    IN  slice_assign(P, int(items[m] - t0, TimeDen), int(t2 - t0, TimeDen),
                     time_to_power[items[m]])

\* the loop of _power_1s_array from item m on
RECURSIVE resample_from(_, _, _, _)
resample_from(P, m, items, time_to_power) ==
    IF m > Len(items) THEN P
    ELSE resample_from(resample_fill(P, m, items, time_to_power), m + 1, items, time_to_power)

\* _power_1s_array(time_to_power): the array P on the 1-second grid (the
\* second value, t0, is not used by any caller)
power_1s_array(time_to_power) ==
    IF DOMAIN time_to_power = {} THEN << >>
    ELSE LET items == sorted_keys(DOMAIN time_to_power)
             t0 == items[1]
             tN == items[Len(items)]
             n == int(tN - t0, TimeDen) + 1
             P == resample_from([k \in 1..n |-> 0], 1, items, time_to_power)
         IN  [P EXCEPT ![n] = time_to_power[tN]]

\* win = np.ones(30) / 30.0
NP_WINDOW == 30
\* w = 1200
P20_WINDOW == 1200

\* the sum of P[from..to] (0-based, clipped to the array), by halves
RECURSIVE clipped_sum(_, _, _)
clipped_sum(P, from, to) ==
    LET lo == IF from < 0 THEN 0 ELSE from
        hi == IF to > Len(P) - 1 THEN Len(P) - 1 ELSE to
        half == (lo + hi) \div 2
    IN  IF lo > hi THEN 0
        ELSE IF lo = hi THEN P[lo + 1]
        ELSE clipped_sum(P, lo, half) + clipped_sum(P, half + 1, hi)

\* a smoothing window one entry short
convolve_same_short(P) ==
    LET n == IF Len(P) < NP_WINDOW THEN Len(P) ELSE NP_WINDOW
        length == IF Len(P) < NP_WINDOW THEN NP_WINDOW ELSE Len(P)
        n_right == n - (n \div 2) - 1
    IN  [k \in 1..length |->
            clipped_sum(P, (k - 1) + n_right - (NP_WINDOW - 2), (k - 1) + n_right)]

\* NP_WINDOW * np.convolve(P, win, mode="same"): max(len(P), 30) entries, entry
\* k the entry k + n_right of the full convolution, n_right = n - n // 2 - 1
\* for n the shorter of the two lengths
convolve_same(P) ==
    LET n == IF Len(P) < NP_WINDOW THEN Len(P) ELSE NP_WINDOW
        length == IF Len(P) < NP_WINDOW THEN NP_WINDOW ELSE Len(P)
        n_right == n - (n \div 2) - 1
    IN  [k \in 1..length |->
            clipped_sum(P, (k - 1) + n_right - (NP_WINDOW - 1), (k - 1) + n_right)]

\* the sum of x[k]**4 for k in from..to, by halves
RECURSIVE sum_pow4(_, _, _)
sum_pow4(x, from, to) ==
    IF from > to THEN 0
    ELSE IF from = to THEN LET s == x[from] IN s * s * s * s
    ELSE LET half == (from + to) \div 2
         IN  sum_pow4(x, from, half) + sum_pow4(x, half + 1, to)

\* csum = np.cumsum(np.insert(P, 0, 0.0)): csum[k] the sum of the first k entries
cumsum(P) == [k \in 0..Len(P) |-> clipped_sum(P, 0, k - 1)]

\* a rolling sum over windows one entry short: csum[w-1:] - csum[:-w+1]
rolling_sums_short(P, w) ==
    LET csum == cumsum(P)
    IN  [i \in 0..(Len(P) - w) |-> csum[i + w - 1] - csum[i]]

\* w * roll = csum[w:] - csum[:-w], entry i the sum of the window that
\* starts at i
rolling_sums(P, w) ==
    LET csum == cumsum(P)
    IN  [i \in 0..(Len(P) - w) |-> csum[i + w] - csum[i]]

\* P20: np.mean(P) below w entries, np.max(roll) from w entries on
best_20min(P, w) ==
    IF Len(P) < w THEN Norm(clipped_sum(P, 0, Len(P) - 1), Len(P))
    ELSE LET roll == rolling_sums(P, w)
         IN  Norm(Max({roll[i] : i \in DOMAIN roll}), w)

\* the span from the first to the last entry
duration_span(P) == Len(P) - 1

\* secs = float(P.size)
duration_secs(P) == Len(P)

\* 0.0 if ftp_w <= 0
no_ftp(ftp_w) == ftp_w <= 0

\* compute_np_if_tss_and_p20(time_to_power, ftp_w), ftp_w a whole number of
\* watts.  NP is the fourth root of mean(P30**4) and is kept as its fourth
\* power; IF = NP / ftp_w as IF**4; TSS = (secs * NP * IF) / (ftp_w * 3600)
\* * 100 is kept as its factor on NP * IF, secs * 100 / (ftp_w * 3600), and
\* as 0 when TSS is 0.0
compute_np_if_tss_and_p20(time_to_power, ftp_w) ==
    LET P == power_1s_array(time_to_power)
    IN  IF Len(P) = 0
        THEN [NP_pow4 |-> RatOf(0), IF_pow4 |-> RatOf(0), TSS_per_NP_IF |-> RatOf(0),
              P20 |-> RatOf(0)]
        ELSE LET P30 == convolve_same(P)
                 NP_pow4 == Norm(sum_pow4(P30, 1, Len(P30)),
                                 NP_WINDOW * NP_WINDOW * NP_WINDOW * NP_WINDOW * Len(P30))
                 ftp4 == ftp_w * ftp_w * ftp_w * ftp_w
                 secs == duration_secs(P)
             IN  [NP_pow4 |-> NP_pow4,
                  IF_pow4 |-> IF no_ftp(ftp_w) THEN RatOf(0)
                              ELSE Norm(NP_pow4[1], NP_pow4[2] * ftp4),
                  TSS_per_NP_IF |-> IF no_ftp(ftp_w) THEN RatOf(0)
                                    ELSE Norm(secs * 100, ftp_w * 3600),
                  P20 |-> best_20min(P, P20_WINDOW)]

\* summarize_for_connect(rows, time_to_power, ftp_w)
summarize_for_connect(rows, time_to_power, ftp_w) ==
    LET d == cum_dist_from_rows(rows)
    IN  IF d.raised # "" THEN d
        ELSE LET power == compute_np_if_tss_and_p20(time_to_power, ftp_w)
                 dist_m == d.value.dist
                 total_s == d.value.total_time
                 moving_s == d.value.moving_time
             IN  Returns([distance_m |-> dist_m,
                          total_s |-> total_s,
                          moving_s |-> moving_s,
                          avg_v |-> IF RatLeq(total_s, RatOf(0)) THEN RatOf(0)
                                    ELSE RatDiv(dist_m, total_s),
                          avg_v_moving |-> IF RatLeq(moving_s, RatOf(0)) THEN RatOf(0)
                                           ELSE RatDiv(dist_m, moving_s),
                          v_max |-> d.value.v_max,
                          NP_pow4 |-> power.NP_pow4,
                          IF_pow4 |-> power.IF_pow4,
                          TSS_per_NP_IF |-> power.TSS_per_NP_IF,
                          P20 |-> power.P20])

\* f"{x:.1f}": the text of x with one decimal, as the number of tenths
format_1f(x) == round(RatMul(x, RatOf(10)))

\* a trackpoint loop that counts a sample only when it is moving
tcx_adds_moving(dt_s, v) == RatLt(RatOf(0), dt_s) /\ is_moving(v)

\* if dt_s > 0 and v > 0: dist_m += v * dt_s
tcx_adds(dt_s, v) == RatLt(RatOf(0), dt_s) /\ RatLt(RatOf(0), v)

\* the trackpoint loop of write_tcx from sample i on; st = [dist_m, last_ts,
\* track], a trackpoint its Time, the distance integrated so far and the
\* DistanceMeters text written
RECURSIVE tcx_track_from(_, _, _)
tcx_track_from(st, i, rows) ==
    IF i > Len(rows) THEN st.track
    ELSE LET dt_s == Norm(rows[i].ts - st.last_ts, TimeDen)
             v == speed_or_zero(rows[i].spd)
             dist_m == IF i > 1 /\ tcx_adds(dt_s, v) THEN RatAdd(st.dist_m, RatMul(v, dt_s))
                       ELSE st.dist_m
         IN  tcx_track_from([dist_m |-> dist_m, last_ts |-> rows[i].ts,
                             track |-> Append(st.track,
                                 [Time |-> rows[i].ts, dist_m |-> dist_m,
                                  DistanceMeters |-> format_1f(dist_m)])],
                            i + 1, rows)

\* write_tcx(out_fit_path, rows, start_ts, time_to_power, summary=summary):
\* the Lap's TotalTimeSeconds and DistanceMeters and the Track
write_tcx(rows, summary) ==
    IF rows = << >> THEN Raises("IndexError")
    ELSE Returns([TotalTimeSeconds |-> int(rows[Len(rows)].ts - rows[1].ts, TimeDen),
                  DistanceMeters |-> format_1f(summary.distance_m),
                  Track |-> tcx_track_from([dist_m |-> RatOf(0), last_ts |-> rows[1].ts,
                                            track |-> << >>], 1, rows)])

\* ------------------------------------------------ gap-filler machine
\* The two entry points of the gap-filler, each called with arguments drawn
\* at the start and then called again with the same arguments.

\* seeds a caller passes
Seeds == {1, 2}
\* jitter amplitudes a caller passes
Amps == {0, 1}
\* values a sample can carry, inside and outside the clamps
InterpValues == {10, 20, 221}
HrValues == {39, 60}
CadValues == {90, 200}

Opt(S) == {None} \cup {Some(v) : v \in S}

SeqsUpTo(S, n) == UNION {[1..k -> S] : k \in 0..n}

InterpArgs ==
    [values : SeqsUpTo(Opt(InterpValues), MaxLen),
     jitter_amp : Amps,
     bounds : {None, HR_BOUNDS, CAD_BOUNDS},
     seed : Seeds]

\* recordings sampled once a second
FillRows ==
    UNION {[1..k -> [ts : {0}, hr : Opt(HrValues), cad : Opt(CadValues), spd : {None}]]
               : k \in 1..MaxRows}

Stamped(rows) == [i \in 1..Len(rows) |-> [rows[i] EXCEPT !.ts = (i - 1) * TimeDen]]

FillArgs ==
    [rows : {Stamped(r) : r \in FillRows},
     hr_jitter_bpm : {1},
     cad_jitter_rpm : {2},
     cad_extra_jitter_everywhere : {0, 1},
     seed : Seeds]

gapVars == << icall, iout, fcall, fout >>
mainVars == << SEGMENTS, POWER_JITTER_W, cfg, pc, file, run_rows, run_pw,
               run_usable_secs, run_time_to_power, run_v_raw, run_v_smooth >>
callVars == << flat, metric >>
vars == << twister, random_pos, gapVars, mainVars, callVars >>

\* no run of main()
NoRuns ==
    /\ SEGMENTS = << >>
    /\ POWER_JITTER_W = 0
    /\ cfg = << >>
    /\ pc = << >>
    /\ file = << >>
    /\ run_rows = << >>
    /\ run_pw = << >>
    /\ run_usable_secs = << >>
    /\ run_time_to_power = << >>
    /\ run_v_raw = << >>
    /\ run_v_smooth = << >>

InitRng ==
    /\ twister = << >>
    /\ random_pos = 0

\* no direct call of power_to_speed_flat or of a stage
NoStageCalls ==
    /\ flat = << >>
    /\ metric = << >>

InitGapFiller ==
    /\ InitRng
    /\ NoStageCalls
    /\ iout = << >>
    /\ fout = << >>
    /\ NoRuns
    /\ \/ icall \in {Some(a) : a \in InterpArgs} /\ fcall = None
       \/ icall = None /\ fcall \in {Some(a) : a \in FillArgs}

\* a call _interp_with_jitter(values, jitter_amp, bounds, seed)
InterpCall ==
    /\ ~IsNone(icall)
    /\ Len(iout) < MaxCalls
    /\ LET a == icall[1]
           gen == Random(a.seed).seed
       IN  \E stream \in Streams(gen, interp_draws(a.values)) :
               /\ iout' = Append(iout, interp_with_jitter(a.values, a.jitter_amp,
                                                           a.bounds, a.seed, stream).out)
               /\ twister' = Reveal(twister, gen, stream)
    /\ UNCHANGED << random_pos, icall, fcall, fout, mainVars, callVars >>

\* a call fill_missing_hr_and_cadence(rows, hr_jitter_bpm, cad_jitter_rpm,
\* cad_extra_jitter_everywhere, seed)
FillCall ==
    /\ ~IsNone(fcall)
    /\ Len(fout) < MaxCalls
    /\ LET a == fcall[1]
           hr_list == [i \in 1..Len(a.rows) |-> a.rows[i].hr]
           cad_list == [i \in 1..Len(a.rows) |-> a.rows[i].cad]
           g_hr == Random(hr_seed(a.seed)).seed
           g_cad == Random(cad_seed(a.seed)).seed
           g_x == Random(extra_seed(a.seed)).seed
       IN  \E hr_stream \in Streams(g_hr, interp_draws(hr_list)),
              cad_stream \in Streams(g_cad, interp_draws(cad_list)),
              extra_stream \in Streams(g_x, extra_draws(a.rows, a.cad_extra_jitter_everywhere)) :
               /\ fout' = Append(fout, fill_missing_hr_and_cadence(
                                  a.rows, a.hr_jitter_bpm, a.cad_jitter_rpm,
                                  a.cad_extra_jitter_everywhere, a.seed,
                                  hr_stream, cad_stream, extra_stream))
               /\ twister' = Reveal(Reveal(Reveal(twister, g_hr, hr_stream),
                                           g_cad, cad_stream), g_x, extra_stream)
    /\ UNCHANGED << random_pos, icall, iout, fcall, mainVars, callVars >>

NextGapFiller == InterpCall \/ FillCall

SpecGapFiller == InitGapFiller /\ [][NextGapFiller]_vars

\* ------------------------------------------------------------- main()
\* The stages as main() calls them, one action per call.  A run is one
\* execution of main(); runs of the same process share the module-level
\* generator, SEGMENTS and POWER_JITTER_W.

\* SEGMENTS and POWER_JITTER_W as the module sets them
MainSegments ==
    << [name |-> "WU", dur |-> 600, target |-> 135],
       [name |-> "GA2", dur |-> 1200, target |-> 158],
       [name |-> "SS1", dur |-> 600, target |-> 203],
       [name |-> "GA2", dur |-> 1200, target |-> 158],
       [name |-> "SS2", dur |-> 600, target |-> 203],
       [name |-> "GA2", dur |-> 1200, target |-> 158],
       [name |-> "SS3", dur |-> 600, target |-> 203],
       [name |-> "GA2", dur |-> 1200, target |-> 158],
       [name |-> "CD", dur |-> 600, target |-> 124] >>
MainPowerJitter == 3

\* the parameters of main(); v_max is not passed on and stays the default
MainCfg ==
    [SEED |-> 1234, HR_JITTER_BPM |-> 1, CAD_JITTER_RPM |-> 2, CAD_EXTRA_JITTER |-> 1,
     par |-> MainPar,
     smooth_window_s |-> 5]

Runs == DOMAIN pc

\* 2) rows = fill_missing_hr_and_cadence(rows, ..., seed=SEED)
Fill(a) ==
    /\ pc[a] = "loaded"
    /\ LET hr_list == [i \in 1..Len(run_rows[a]) |-> run_rows[a][i].hr]
           cad_list == [i \in 1..Len(run_rows[a]) |-> run_rows[a][i].cad]
           g_hr == Random(hr_seed(cfg.SEED)).seed
           g_cad == Random(cad_seed(cfg.SEED)).seed
           g_x == Random(extra_seed(cfg.SEED)).seed
       IN  \E hr_stream \in Streams(g_hr, interp_draws(hr_list)),
              cad_stream \in Streams(g_cad, interp_draws(cad_list)),
              extra_stream \in Streams(g_x, extra_draws(run_rows[a], cfg.CAD_EXTRA_JITTER)) :
               /\ run_rows' = [run_rows EXCEPT ![a] = fill_missing_hr_and_cadence(
                              run_rows[a], cfg.HR_JITTER_BPM, cfg.CAD_JITTER_RPM,
                              cfg.CAD_EXTRA_JITTER, cfg.SEED,
                              hr_stream, cad_stream, extra_stream)]
               /\ twister' = Reveal(Reveal(Reveal(twister, g_hr, hr_stream),
                                           g_cad, cad_stream), g_x, extra_stream)
    /\ pc' = [pc EXCEPT ![a] = "filled"]
    /\ UNCHANGED << random_pos, gapVars, SEGMENTS, POWER_JITTER_W, cfg, file, run_pw,
                    run_usable_secs, run_time_to_power, run_v_raw, run_v_smooth,
                    callVars >>

\* 3) time_to_power, _ = build_power_series(rows, start_ts)
Power(a) ==
    /\ pc[a] = "filled"
    /\ IF power_raises(run_rows[a], SEGMENTS)
       THEN /\ pc' = [pc EXCEPT ![a] = "raised"]
            /\ UNCHANGED << twister, random_pos, run_pw, run_usable_secs, run_time_to_power >>
       ELSE LET rng == TheRandom(random_pos)
                need == rng.pos + usable_secs_of(run_rows[a], SEGMENTS)
            IN  \E stream \in Streams(rng.seed, need) :
                    LET r == build_power_series(run_rows[a], SEGMENTS, POWER_JITTER_W,
                                                rng, stream)
                    IN  /\ run_pw' = [run_pw EXCEPT ![a] = r.pw]
                        /\ run_usable_secs' = [run_usable_secs EXCEPT ![a] = r.usable_secs]
                        /\ run_time_to_power' = [run_time_to_power EXCEPT ![a] = r.time_to_power]
                        /\ random_pos' = r.pos
                        /\ twister' = Reveal(twister, rng.seed, stream)
                        /\ pc' = [pc EXCEPT ![a] = "powered"]
    /\ UNCHANGED << gapVars, SEGMENTS, POWER_JITTER_W, cfg, file, run_rows, run_v_raw,
                    run_v_smooth, callVars >>

\* 4) rows = apply_speed_from_power(rows, time_to_power, ..., smooth_window_s=5)
Speed(a) ==
    /\ pc[a] = "powered"
    /\ LET r == apply_speed_from_power(run_rows[a], run_time_to_power[a], cfg.par,
                                       cfg.smooth_window_s)
       IN  /\ run_v_raw' = [run_v_raw EXCEPT ![a] = r.v_raw]
           /\ run_v_smooth' = [run_v_smooth EXCEPT ![a] = r.v_smooth]
           /\ run_rows' = [run_rows EXCEPT ![a] = r.rows]
    /\ pc' = [pc EXCEPT ![a] = "speeded"]
    /\ UNCHANGED << rngVars, gapVars, SEGMENTS, POWER_JITTER_W, cfg, file, run_pw,
                    run_usable_secs, run_time_to_power, callVars >>

\* the gap between two samples: none, a fraction of a second above one half,
\* one second, four seconds
Gaps == {0, TimeDen \div 2 + 1, TimeDen, 4 * TimeDen}

\* the timestamps of the recordings of n samples, the first at 0
RECURSIVE Stamps(_)
Stamps(n) ==
    IF n = 1 THEN {<< 0 >>}
    ELSE {Append(t, t[n - 1] + g) : t \in Stamps(n - 1), g \in Gaps}

\* the runs in RunIds at stage `at`, on the recordings `files`
InitRuns(RunIds, files, at) ==
    /\ pc = [a \in RunIds |-> at]
    /\ file = files
    /\ run_rows = files
    /\ run_pw = [a \in RunIds |-> << >>]
    /\ run_usable_secs = [a \in RunIds |-> 0]
    /\ run_time_to_power = [a \in RunIds |-> << >>]
    /\ run_v_raw = [a \in RunIds |-> << >>]
    /\ run_v_smooth = [a \in RunIds |-> << >>]

NoCalls ==
    /\ icall = None
    /\ iout = << >>
    /\ fcall = None
    /\ fout = << >>

\* the plans: up to MaxSegs segments, each one second at a target below the
\* jitter amplitude or two seconds at a target above it
Plans ==
    SeqsUpTo({[name |-> "A", dur |-> 1, target |-> 2],
              [name |-> "B", dur |-> 2, target |-> 100]}, MaxSegs)

\* gap-filled recordings of up to MaxSamples samples
StageRecordings ==
    UNION {{[i \in 1..n |-> [ts |-> t[i], hr |-> Some(60), cad |-> Some(90), spd |-> None]]
                : t \in Stamps(n)} : n \in 1..MaxSamples}

\* the power and the speed stage on one gap-filled recording, over the
\* plans, both jitter amplitudes and the default physical parameters
InitStages ==
    /\ InitRng
    /\ NoStageCalls
    /\ NoCalls
    /\ SEGMENTS \in Plans
    /\ POWER_JITTER_W \in {0, MainPowerJitter}
    /\ cfg = [MainCfg EXCEPT !.par = DefaultPar]
    /\ \E r \in StageRecordings : InitRuns({1}, [a \in {1} |-> r], "filled")

NextStages == \E a \in Runs : Power(a) \/ Speed(a)

SpecStages == InitStages /\ [][NextStages]_vars

\* recordings a run of main() loads: every sample with heart rate and
\* cadence or without both, a second or a fraction of a second apart
MainRecordings ==
    UNION {{[i \in 1..n |-> [ts |-> t[i], hr |-> k[i][1], cad |-> k[i][2], spd |-> None]]
                : t \in {u \in Stamps(n) : \A j \in 2..n : u[j] - u[j - 1] \in {TimeDen \div 2 + 1, TimeDen}},
                  k \in [1..n -> {<< None, None >>, << Some(60), Some(90) >>}]}
           : n \in 1..MaxMainRows}

\* two runs of main() in one process, each on its own recording
Init ==
    /\ InitRng
    /\ NoStageCalls
    /\ NoCalls
    /\ SEGMENTS = MainSegments
    /\ POWER_JITTER_W = MainPowerJitter
    /\ cfg = MainCfg
    /\ \E files \in [{1, 2} -> MainRecordings] : InitRuns({1, 2}, files, "loaded")

Next == \E a \in Runs : Fill(a) \/ Power(a) \/ Speed(a)

Spec == Init /\ [][Next]_vars

\* ----------------------------------------- power_to_speed_flat, stepwise
\* Calls of power_to_speed_flat with the same physical parameters, one after
\* the other, each executed loop iteration by loop iteration.  flat holds
\* the frame of the call in progress and what the earlier calls returned.

\* the number of calls made one after the other
MaxFlatCalls == 2

\* powers in watts: negative, zero, small, ordinary, the two around the
\* power that the default bracket of 25 m/s just holds, and two beyond
FlatPowers == {-5, 0, 1, 100, 3221, 3222, 36000, 200000}

\* parameter sets: the defaults, main()'s, a bracket near the cap, no
\* bracket at all, a bracket below 0, a climb of 5 %
FlatPars ==
    {DefaultPar, MainPar, [DefaultPar EXCEPT !.v_max = 59],
     [DefaultPar EXCEPT !.v_max = 0], [DefaultPar EXCEPT !.v_max = -10],
     [DefaultPar EXCEPT !.grade = 50]}

InitFlat ==
    /\ InitRng
    /\ iout = << >>
    /\ fout = << >>
    /\ icall = None
    /\ fcall = None
    /\ NoRuns
    /\ metric = << >>
    /\ \E par \in FlatPars :
           flat = [pc |-> "idle", par |-> par, p_w |-> 0, p_wheel |-> 0, lo |-> 0, hi |-> 0,
                   hi0 |-> 0, expansions |-> 0, steps |-> 0, returned |-> << >>]

\* power_to_speed_flat(p_w, ...) is called: if p_w <= 0: return 0.0;
\* otherwise p_wheel = p_w * drivetrain_eff; lo, hi = 0.0, v_max
FlatCall ==
    /\ flat # << >>
    /\ flat.pc = "idle"
    /\ Len(flat.returned) < MaxFlatCalls
    /\ \E p_w \in FlatPowers :
           LET frame == [flat EXCEPT !.p_w = p_w, !.p_wheel = 0, !.lo = 0, !.hi = 0,
                                     !.hi0 = 0, !.expansions = 0, !.steps = 0]
           IN  IF no_search(p_w)
               THEN flat' = [frame EXCEPT !.returned = Append(@,
                                [p_w |-> p_w, ret |-> RatOf(0), lo |-> 0, hi |-> 0, hi0 |-> 0,
                                 p_wheel |-> 0, expansions |-> 0, steps |-> 0])]
               ELSE flat' = [frame EXCEPT !.pc = "expand",
                                          !.p_wheel = p_w * flat.par.drivetrain_eff,
                                          !.hi = flat.par.v_max * SpeedDen]
    /\ UNCHANGED << rngVars, gapVars, mainVars, metric >>

\* one iteration of the expansion loop
FlatExpand ==
    /\ flat # << >>
    /\ flat.pc = "expand"
    /\ expand_more(flat.hi, flat.p_wheel, flat.par)
    /\ flat' = [flat EXCEPT !.hi = expand_step(@), !.expansions = @ + 1]
    /\ UNCHANGED << rngVars, gapVars, mainVars, metric >>

\* the expansion loop ends
FlatBracket ==
    /\ flat # << >>
    /\ flat.pc = "expand"
    /\ ~expand_more(flat.hi, flat.p_wheel, flat.par)
    /\ flat' = [flat EXCEPT !.pc = "bisect", !.hi0 = flat.hi]
    /\ UNCHANGED << rngVars, gapVars, mainVars, metric >>

\* one iteration of the bisection loop
FlatBisect ==
    /\ flat # << >>
    /\ flat.pc = "bisect"
    /\ flat.steps < BISECTION_STEPS
    /\ LET b == bisect_step(flat.lo, flat.hi, flat.p_wheel, flat.par)
       IN  flat' = [flat EXCEPT !.lo = b[1], !.hi = b[2], !.steps = @ + 1]
    /\ UNCHANGED << rngVars, gapVars, mainVars, metric >>

\* return 0.5 * (lo + hi)
FlatReturn ==
    /\ flat # << >>
    /\ flat.pc = "bisect"
    /\ flat.steps = BISECTION_STEPS
    /\ flat' = [flat EXCEPT !.pc = "idle",
                            !.returned = Append(@,
                                [p_w |-> flat.p_w, ret |-> mid_speed(flat.lo, flat.hi),
                                 lo |-> flat.lo, hi |-> flat.hi, hi0 |-> flat.hi0,
                                 p_wheel |-> flat.p_wheel, expansions |-> flat.expansions,
                                 steps |-> flat.steps])]
    /\ UNCHANGED << rngVars, gapVars, mainVars, metric >>

NextFlat == FlatCall \/ FlatExpand \/ FlatBracket \/ FlatBisect \/ FlatReturn

SpecFlat == InitFlat /\ [][NextFlat]_vars

\* a call that has started runs on: the interpreter takes the next pass of
\* the loop the call is in, or returns
SpecFlatLive ==
    SpecFlat /\ WF_vars(FlatExpand \/ FlatBracket \/ FlatBisect \/ FlatReturn)

\* ------------------------------------------------ the stages, called directly
\* One call of a stage or of a metric function on arguments drawn at the
\* start, the degenerate ones included: no samples, an empty power map,
\* ftp_w = 0, eff_metabolic = 0, smooth_window_s = 0, repeated timestamps.
\* metric holds the function, its arguments, after the call its outcome and,
\* for apply_speed_from_power, the frame of its smoothing loop.

\* the largest number of timestamps in a power map
MaxMapKeys == 3

\* the gap between two keys of a power map: a fraction of a second, one
\* second, three seconds
MapGaps == {TimeDen \div 2 + 1, TimeDen, 3 * TimeDen}

\* the ascending keys of the maps of n timestamps, the first at 0
RECURSIVE MapStamps(_)
MapStamps(n) ==
    IF n = 1 THEN {<< 0 >>}
    ELSE {Append(t, t[n - 1] + g) : t \in MapStamps(n - 1), g \in MapGaps}

\* the power maps of up to MaxMapKeys timestamps with powers in `watts`
MetricMaps(watts) ==
    {<< >>} \cup UNION {UNION {[{t[i] : i \in 1..n} -> watts] : t \in MapStamps(n)}
                            : n \in 1..MaxMapKeys}

\* the gap between two keys of a long power map: one second, one second
\* less than the 20-minute window, the window
LongGaps == {TimeDen, (P20_WINDOW - 1) * TimeDen, P20_WINDOW * TimeDen}

\* the ascending keys of the long maps of n timestamps, the first at 0
RECURSIVE LongStamps(_)
LongStamps(n) ==
    IF n = 1 THEN {<< 0 >>}
    ELSE {Append(t, t[n - 1] + g) : t \in LongStamps(n - 1), g \in LongGaps}

\* the power maps of two to MaxMapKeys timestamps with one gap of about 20
\* minutes at most, powers 0 and 1
LongMaps ==
    UNION {UNION {[{t[i] : i \in 1..n} -> {0, 1}]
                      : t \in {u \in LongStamps(n) : u[n] < 2 * (P20_WINDOW - 1) * TimeDen}}
               : n \in 2..MaxMapKeys}

\* the recordings of up to MaxRows samples, gap-filled, at the speeds `speeds`
MetricRows(speeds) ==
    {<< >>} \cup UNION {{[i \in 1..n |-> [ts |-> t[i], hr |-> Some(60), cad |-> Some(90),
                                            spd |-> v[i]]]
                             : t \in Stamps(n), v \in [1..n -> speeds]} : n \in 1..MaxRows}

\* speeds of a sample: none, below and above the moving threshold
MetricSpeeds == {None, << 3, 10 >>, << 2, 1 >>}

\* the recordings summarize_for_connect and write_tcx are given: up to
\* MaxSamples samples, a backward speed among the speeds
TcxRows ==
    {<< >>} \cup UNION {{[i \in 1..n |-> [ts |-> t[i], hr |-> Some(60), cad |-> Some(90),
                                            spd |-> v[i]]]
                             : t \in Stamps(n), v \in [1..n -> MetricSpeeds \cup {<< -1, 1 >>}]}
                            : n \in 1..MaxSamples}

\* recordings as they are loaded, up to MaxRows samples: heart rate,
\* cadence and speed each present or not
SpedRows ==
    UNION {[1..k -> [ts : {0}, hr : Opt({60}), cad : Opt({90}), spd : {None, << 2, 1 >>}]]
               : k \in 1..MaxRows}

\* the calls
MetricCalls ==
    [fn : {"fill_missing_hr_and_cadence"},
     rows : {<< >>} \cup {Stamped(r) : r \in SpedRows},
     seed : {1}]
    \cup [fn : {"build_power_series"},
          rows : {r \in MetricRows({None}) : Len(r) <= 1},
          segments : Plans]
    \cup [fn : {"apply_speed_from_power"},
          rows : {<< >>} \cup StageRecordings,
          time_to_power : MetricMaps({100}),
          smooth_window_s : {0, 2, 5}]
    \cup [fn : {"estimate_kcal"},
          time_to_power : MetricMaps({-50, 0, 200}),
          eff_metabolic : {0, 240}]
    \cup [fn : {"_power_1s_array"},
          time_to_power : MetricMaps({0, 1, 2})]
    \cup [fn : {"compute_np_if_tss_and_p20"},
          time_to_power : MetricMaps({0, 1}),
          ftp_w : {-1, 0, 2}]
    \cup [fn : {"compute_np_if_tss_and_p20"},
          time_to_power : LongMaps,
          ftp_w : {0, 1}]
    \cup [fn : {"summarize_for_connect"},
          rows : TcxRows,
          time_to_power : {m \in MetricMaps({1}) : Cardinality(DOMAIN m) <= 1},
          ftp_w : {0, 2}]
    \cup {[fn |-> "write_tcx", rows |-> r,
           summary |-> summarize_for_connect(r, << >>, 0).value] : r \in TcxRows}

InitMetric ==
    /\ InitRng
    /\ NoCalls
    /\ NoRuns
    /\ flat = << >>
    /\ \E call \in MetricCalls : metric = [call |-> call, out |-> None, frame |-> None]

\* the call is made and its outcome kept
Done(outcome) == metric' = [metric EXCEPT !.out = Some(outcome)]

\* whether the call of fn is still to be made
Pending(fn) == metric # << >> /\ metric.call.fn = fn /\ IsNone(metric.out)

\* fill_missing_hr_and_cadence(rows, seed=seed) with the default amplitudes
MetricFill ==
    /\ Pending("fill_missing_hr_and_cadence")
    /\ LET a == metric.call
           hr_list == [i \in 1..Len(a.rows) |-> a.rows[i].hr]
           cad_list == [i \in 1..Len(a.rows) |-> a.rows[i].cad]
           g_hr == Random(hr_seed(a.seed)).seed
           g_cad == Random(cad_seed(a.seed)).seed
       IN  \E hr_stream \in Streams(g_hr, interp_draws(hr_list)),
              cad_stream \in Streams(g_cad, interp_draws(cad_list)) :
               /\ Done(Returns(fill_missing_hr_and_cadence(a.rows, 1, 2, 0, a.seed,
                                                            hr_stream, cad_stream, << >>)))
               /\ twister' = Reveal(Reveal(twister, g_hr, hr_stream), g_cad, cad_stream)
    /\ UNCHANGED << random_pos, gapVars, mainVars, flat >>

\* build_power_series(rows, start_ts) with SEGMENTS = segments and no jitter
MetricPower ==
    /\ Pending("build_power_series")
    /\ LET a == metric.call
           rng == TheRandom(random_pos)
       IN  IF a.rows = << >>
           THEN Done(Raises("RuntimeError")) /\ UNCHANGED << twister, random_pos >>
           ELSE IF power_raises(a.rows, a.segments)
           THEN Done(Raises("IndexError")) /\ UNCHANGED << twister, random_pos >>
           ELSE \E stream \in Streams(rng.seed, rng.pos + usable_secs_of(a.rows, a.segments)) :
                    LET r == build_power_series(a.rows, a.segments, 0, rng, stream)
                    IN  /\ Done(Returns([time_to_power |-> r.time_to_power,
                                         usable_secs |-> r.usable_secs]))
                        /\ random_pos' = r.pos
                        /\ twister' = Reveal(twister, rng.seed, stream)
    /\ UNCHANGED << gapVars, mainVars, flat >>

\* the call of apply_speed_from_power is in its smoothing loop
Smoothing ==
    Pending("apply_speed_from_power") /\ ~IsNone(metric.frame)

\* apply_speed_from_power(rows, time_to_power, smooth_window_s=...) is
\* called: v_raw is computed and the smoothing loop set up; last_t =
\* ts_list[0] raises IndexError on an empty recording
MetricSpeedCall ==
    /\ Pending("apply_speed_from_power")
    /\ IsNone(metric.frame)
    /\ LET a == metric.call
       IN  IF a.rows = << >>
           THEN Done(Raises("IndexError"))
           ELSE metric' = [metric EXCEPT !.frame = Some(
                    [i |-> 0,
                     v_raw |-> raw_speeds(a.rows, a.time_to_power, DefaultPar),
                     st |-> [buf |-> << >>, last_t |-> a.rows[1].ts, acc_time |-> RatOf(0),
                             v_smooth |-> << >>, cut |-> None]])]
    /\ UNCHANGED << rngVars, gapVars, mainVars, flat >>

\* one pass of the smoothing loop
MetricSpeedSample ==
    /\ Smoothing
    /\ metric.frame[1].i < Len(metric.call.rows)
    /\ LET a == metric.call
           f == metric.frame[1]
       IN  metric' = [metric EXCEPT !.frame = Some(
               [f EXCEPT !.i = f.i + 1,
                         !.st = smooth_step(f.st, f.i + 1, a.rows, f.v_raw,
                                            RatOf(a.smooth_window_s))])]
    /\ UNCHANGED << rngVars, gapVars, mainVars, flat >>

\* the loop is over: return new_rows
MetricSpeedReturn ==
    /\ Smoothing
    /\ metric.frame[1].i = Len(metric.call.rows)
    /\ Done(Returns(speed_rows(metric.call.rows, metric.frame[1].st.v_smooth)))
    /\ UNCHANGED << rngVars, gapVars, mainVars, flat >>

\* estimate_kcal(time_to_power, eff_metabolic)
MetricKcal ==
    /\ Pending("estimate_kcal")
    /\ Done(estimate_kcal(metric.call.time_to_power, metric.call.eff_metabolic))
    /\ UNCHANGED << rngVars, gapVars, mainVars, flat >>

\* _power_1s_array(time_to_power)
MetricResample ==
    /\ Pending("_power_1s_array")
    /\ Done(Returns(power_1s_array(metric.call.time_to_power)))
    /\ UNCHANGED << rngVars, gapVars, mainVars, flat >>

\* compute_np_if_tss_and_p20(time_to_power, ftp_w)
MetricNp ==
    /\ Pending("compute_np_if_tss_and_p20")
    /\ Done(Returns(compute_np_if_tss_and_p20(metric.call.time_to_power, metric.call.ftp_w)))
    /\ UNCHANGED << rngVars, gapVars, mainVars, flat >>

\* summarize_for_connect(rows, time_to_power, ftp_w)
MetricSummarize ==
    /\ Pending("summarize_for_connect")
    /\ Done(summarize_for_connect(metric.call.rows, metric.call.time_to_power,
                                  metric.call.ftp_w))
    /\ UNCHANGED << rngVars, gapVars, mainVars, flat >>

\* write_tcx(OUT_FIT, rows, start_ts, time_to_power, summary=summary) with
\* the summary of the same rows, as main() calls it
MetricTcx ==
    /\ Pending("write_tcx")
    /\ Done(write_tcx(metric.call.rows, metric.call.summary))
    /\ UNCHANGED << rngVars, gapVars, mainVars, flat >>

NextMetric ==
    \/ MetricFill
    \/ MetricPower
    \/ MetricSpeedCall
    \/ MetricSpeedSample
    \/ MetricSpeedReturn
    \/ MetricKcal
    \/ MetricResample
    \/ MetricNp
    \/ MetricSummarize
    \/ MetricTcx

SpecMetric == InitMetric /\ [][NextMetric]_vars

\* ------------------------------------------------- gap-filler properties
\* the direct call's and the fill call's arguments, when there is one
IArgs == icall[1]
FArgs == fcall[1]

\* the anchors of a list, the nearest one before k and the nearest one after
Anchors(vals) == {i \in 1..Len(vals) : ~IsNone(vals[i])}

\* the value the fill rule interpolates or holds at a non-anchor position k
FillBase(vals, k) ==
    LET before == {i \in Anchors(vals) : i < k}
        after == {i \in Anchors(vals) : i > k}
    IN  IF before = {} THEN RatOf(Val(vals[Min(after)]))
        ELSE IF after = {} THEN RatOf(Val(vals[Max(before)]))
        ELSE LET a == Max(before)
                 b == Min(after)
                 va == Val(vals[a])
                 vb == Val(vals[b])
             IN  Norm(va * (b - a) + (vb - va) * (k - a), b - a)

\* C4 as claimed: every known position comes out unchanged, for the direct
\* call and for both heart rate and cadence of fill_missing_hr_and_cadence
C4_AnchorsExactEverywhere ==
    /\ ~IsNone(icall) =>
         \A c \in 1..Len(iout) : \A i \in Anchors(IArgs.values) :
             iout[c][i] = Val(IArgs.values[i])
    /\ ~IsNone(fcall) =>
         \A c \in 1..Len(fout) : \A i \in 1..Len(FArgs.rows) :
             /\ ~IsNone(FArgs.rows[i].hr) => fout[c][i].hr = FArgs.rows[i].hr
             /\ ~IsNone(FArgs.rows[i].cad) => fout[c][i].cad = FArgs.rows[i].cad

\* C4 amended: every known position of _interp_with_jitter comes out with
\* its original value, unjittered and unclamped; in the output of
\* fill_missing_hr_and_cadence so does every known heart rate, and every
\* known cadence when cad_extra_jitter_everywhere is not positive
C4_AnchorsExact ==
    /\ ~IsNone(icall) =>
         \A c \in 1..Len(iout) : \A i \in Anchors(IArgs.values) :
             iout[c][i] = Val(IArgs.values[i])
    /\ ~IsNone(fcall) =>
         \A c \in 1..Len(fout) : \A i \in 1..Len(FArgs.rows) :
             /\ ~IsNone(FArgs.rows[i].hr) => fout[c][i].hr = FArgs.rows[i].hr
             /\ (~IsNone(FArgs.rows[i].cad) /\ FArgs.cad_extra_jitter_everywhere <= 0)
                    => fout[c][i].cad = FArgs.rows[i].cad

\* a heart rate below the clamp and a cadence at the clamp, both known, were
\* filled without the secondary jitter
C4_Witness ==
    /\ ~IsNone(fcall)
    /\ Len(fout) >= 1
    /\ FArgs.cad_extra_jitter_everywhere = 0
    /\ \E i \in 1..Len(FArgs.rows) :
         /\ FArgs.rows[i].hr = Some(39)
         /\ FArgs.rows[i].cad = Some(200)
         /\ \E k \in 1..Len(FArgs.rows) : IsNone(FArgs.rows[k].hr)

\* C5: with an anchor present, every non-anchor position k of
\* _interp_with_jitter holds round(clamp(base_k + e_k)) for a jitter e_k of
\* magnitude at most jitter_amp, base_k the linear interpolant between the
\* neighbouring anchors or the nearest anchor's value at the edges; with
\* bounds it lies within them; [10, None, None, 20] without jitter gives
\* [10, 13, 17, 20]
C5_FillRule ==
    ~IsNone(icall) =>
        \A c \in 1..Len(iout) :
            /\ Anchors(IArgs.values) # {} =>
                 \A k \in (1..Len(IArgs.values)) \ Anchors(IArgs.values) :
                     /\ \E r \in JitterGrid :
                            iout[c][k] = round(clamp(IArgs.bounds,
                                RatAdd(FillBase(IArgs.values, k), RatOf(IArgs.jitter_amp * r))))
                     /\ ~IsNone(IArgs.bounds) =>
                            /\ IArgs.bounds[1] <= iout[c][k]
                            /\ iout[c][k] <= IArgs.bounds[2]
            /\ ( /\ IArgs.values = << Some(10), None, None, Some(20) >>
                 /\ IArgs.jitter_amp = 0
                 /\ IsNone(IArgs.bounds) )
                 => iout[c] = << 10, 13, 17, 20 >>

\* the example list was filled without jitter and without bounds
C5_Witness ==
    /\ ~IsNone(icall)
    /\ Len(iout) >= 1
    /\ IArgs.values = << Some(10), None, None, Some(20) >>
    /\ IArgs.jitter_amp = 0
    /\ IsNone(IArgs.bounds)

\* C6: after fill_missing_hr_and_cadence every sample of the input has a
\* heart rate and a cadence, whatever was known before
C6_NeverAbsent ==
    ~IsNone(fcall) =>
        \A c \in 1..Len(fout) :
            /\ Len(fout[c]) = Len(FArgs.rows)
            /\ \A i \in 1..Len(fout[c]) :
                 ~IsNone(fout[c][i].hr) /\ ~IsNone(fout[c][i].cad)

\* a recording without any known heart rate or cadence was filled
C6_Witness ==
    /\ ~IsNone(fcall)
    /\ Len(fout) >= 1
    /\ Len(FArgs.rows) >= 2
    /\ \A i \in 1..Len(FArgs.rows) :
         IsNone(FArgs.rows[i].hr) /\ IsNone(FArgs.rows[i].cad)

\* C7: a list without any known value comes back as zeros of the same
\* length, whatever the amplitude, the bounds and the seed
C7_AllZeros ==
    (~IsNone(icall) /\ \A i \in 1..Len(IArgs.values) : IsNone(IArgs.values[i])) =>
        \A c \in 1..Len(iout) :
            /\ Len(iout[c]) = Len(IArgs.values)
            /\ \A i \in 1..Len(iout[c]) : iout[c][i] = 0

\* an all-unknown list was filled with jitter under bounds that exclude 0
C7_Witness ==
    /\ ~IsNone(icall)
    /\ Len(iout) >= 1
    /\ Len(IArgs.values) >= 2
    /\ \A i \in 1..Len(IArgs.values) : IsNone(IArgs.values[i])
    /\ IArgs.bounds = HR_BOUNDS
    /\ IArgs.jitter_amp > 0

\* C8: a call repeated with the same values, amplitudes, bounds and seed
\* returns the same list (rows) every time
C8_Deterministic ==
    /\ \A c, d \in 1..Len(iout) : iout[c] = iout[d]
    /\ \A c, d \in 1..Len(fout) : fout[c] = fout[d]

\* a fill whose generators all drew a non-zero jitter was made twice
C8_Witness ==
    /\ ~IsNone(fcall)
    /\ Len(fout) >= 2
    /\ \A g \in {hr_seed(FArgs.seed), cad_seed(FArgs.seed), extra_seed(FArgs.seed)} :
         /\ g \in DOMAIN twister
         /\ \E p \in 1..Len(twister[g]) : twister[g][p] # 0

\* the lists fill_missing_hr_and_cadence passes to _interp_with_jitter and
\* what _interp_with_jitter makes of them on the streams of the two seeds
HrList == [i \in 1..Len(FArgs.rows) |-> FArgs.rows[i].hr]
CadList == [i \in 1..Len(FArgs.rows) |-> FArgs.rows[i].cad]
HrInterpolated ==
    interp_with_jitter(HrList, FArgs.hr_jitter_bpm, HR_BOUNDS, hr_seed(FArgs.seed),
                       Shown(Random(hr_seed(FArgs.seed)).seed)).out
CadInterpolated ==
    interp_with_jitter(CadList, FArgs.cad_jitter_rpm, CAD_BOUNDS, cad_seed(FArgs.seed),
                       Shown(Random(cad_seed(FArgs.seed)).seed)).out

\* C29: every heart rate and every cadence at a position without an
\* original cadence is what _interp_with_jitter produced; with
\* cad_extra_jitter_everywhere > 0 a cadence at a position with an original
\* value lies in [0, 200] and differs from what _interp_with_jitter produced
\* by at most the amplitude; with cad_extra_jitter_everywhere = 0 no cadence
\* differs.
C29_SecondaryJitter ==
    ~IsNone(fcall) =>
        \A c \in 1..Len(fout) : \A i \in 1..Len(FArgs.rows) :
            /\ fout[c][i].hr = Some(HrInterpolated[i])
            /\ IsNone(CadList[i]) => fout[c][i].cad = Some(CadInterpolated[i])
            /\ FArgs.cad_extra_jitter_everywhere = 0 => fout[c][i].cad = Some(CadInterpolated[i])
            /\ (FArgs.cad_extra_jitter_everywhere > 0 /\ ~IsNone(CadList[i])) =>
                   /\ CAD_BOUNDS[1] <= Val(fout[c][i].cad)
                   /\ Val(fout[c][i].cad) <= CAD_BOUNDS[2]
                   /\ Abs(Val(fout[c][i].cad) - CadInterpolated[i])
                          <= FArgs.cad_extra_jitter_everywhere

\* the secondary jitter moved a known cadence and left an interpolated one
\* beside it
C29_Witness ==
    /\ ~IsNone(fcall)
    /\ Len(fout) >= 1
    /\ FArgs.cad_extra_jitter_everywhere > 0
    /\ \E i, k \in 1..Len(FArgs.rows) :
         /\ ~IsNone(CadList[i])
         /\ fout[1][i].cad # CadList[i]
         /\ IsNone(CadList[k])
         /\ fout[1][k].cad = Some(CadInterpolated[k])

\* ------------------------------------------- power and speed properties
\* the runs that have their Time-to-Power Map, and those that have speeds
Powered == {a \in Runs : pc[a] \in {"powered", "speeded"}}
Speeded == {a \in Runs : pc[a] = "speeded"}

\* the elapsed time of sample i of run a since the first sample, in ticks
Elapsed(a, i) == run_rows[a][i].ts - run_rows[a][1].ts

\* the entry of the dense array at index idx (0-based), and the last
\* segment's target for an index outside the array
DenseAt(a, idx) ==
    IF 0 <= idx /\ idx < run_usable_secs[a]
    THEN run_pw[a][idx + 1]
    ELSE SEGMENTS[Len(SEGMENTS)].target

\* C1: on a non-empty ordered recording and a plan with non-negative
\* targets, every value of the Time-to-Power Map is >= 0, and so is every
\* speed of apply_speed_from_power, raw, smoothed and as written to the rows
C1_NonNegative ==
    /\ \A a \in Powered :
         \A ts \in DOMAIN run_time_to_power[a] : run_time_to_power[a][ts] >= 0
    /\ \A a \in Speeded :
         /\ Len(run_v_raw[a]) = Len(run_rows[a])
         /\ Len(run_v_smooth[a]) = Len(run_rows[a])
         /\ \A i \in 1..Len(run_rows[a]) :
              /\ RatLeq(RatOf(0), run_v_raw[a][i])
              /\ RatLeq(RatOf(0), run_v_smooth[a][i])
              /\ run_rows[a][i].spd = run_v_smooth[a][i]

\* a target below the jitter amplitude drew the lowest jitter, and the
\* speeds of that recording, several samples long, were written
C1_Witness ==
    \E a \in Speeded :
        /\ POWER_JITTER_W > 0
        /\ Len(run_rows[a]) >= 3
        /\ \E j \in 1..Len(SEGMENTS) : SEGMENTS[j].target < POWER_JITTER_W
        /\ \E k \in 1..Len(run_pw[a]) :
             /\ run_pw[a][k] = 0
             /\ twister[OsSeed][k] = -1
        /\ \E ts \in DOMAIN run_time_to_power[a] : run_time_to_power[a][ts] = 0
        /\ \E ts \in DOMAIN run_time_to_power[a] : run_time_to_power[a][ts] > 0

\* C9: the keys of the Time-to-Power Map are exactly the timestamps of the
\* samples: every sample's timestamp is a key, and nothing else is
C9_KeySet ==
    \A a \in Powered :
        DOMAIN run_time_to_power[a] = {run_rows[a][i].ts : i \in 1..Len(run_rows[a])}

\* a map was built for a recording that runs past the plan and has two
\* samples at one timestamp
C9_Witness ==
    \E a \in Powered :
        /\ SEGMENTS # << >>
        /\ \E i \in 1..Len(run_rows[a]) : Elapsed(a, i) \div TimeDen >= run_usable_secs[a]
        /\ \E i, j \in 1..Len(run_rows[a]) : i < j /\ run_rows[a][i].ts = run_rows[a][j].ts

\* C10 as claimed: each sample receives the entry of the dense array at
\* index round(elapsed seconds since the first sample)
C10_RoundedIndex ==
    \A a \in Powered :
        \A i \in 1..Len(run_rows[a]) :
            run_time_to_power[a][run_rows[a][i].ts]
                = DenseAt(a, round(Norm(Elapsed(a, i), TimeDen)))

\* C10 amended: each sample receives the entry of the dense array at the
\* index of the whole seconds elapsed since the first sample, the elapsed
\* time truncated, and the last segment's target when that index is outside
\* the array
C10_TruncatedIndex ==
    \A a \in Powered :
        \A i \in 1..Len(run_rows[a]) :
            run_time_to_power[a][run_rows[a][i].ts]
                = DenseAt(a, Elapsed(a, i) \div TimeDen)

\* a sample more than half a second past a whole second, where the entries
\* of the truncated and of the nearest second differ
C10_Witness ==
    \E a \in Powered :
        \E i \in 1..Len(run_rows[a]) :
            LET down == Elapsed(a, i) \div TimeDen
                near == round(Norm(Elapsed(a, i), TimeDen))
            IN  /\ near = down + 1
                /\ near < run_usable_secs[a]
                /\ run_pw[a][down + 1] # run_pw[a][near + 1]

\* the second at which segment j of the plan starts; the plan's total
\* duration is the start of the segment after the last
RECURSIVE SegStart(_)
SegStart(j) == IF j = 1 THEN 0 ELSE SegStart(j - 1) + SEGMENTS[j - 1].dur
PlanTotal == SegStart(Len(SEGMENTS) + 1)

\* the target of the segment whose span [start, start + duration) holds second s
TargetAt(s) ==
    LET j == CHOOSE k \in 1..Len(SEGMENTS) : SegStart(k) <= s /\ s < SegStart(k + 1)
    IN  SEGMENTS[j].target

\* x is within the jitter amplitude of target
WithinJitter(x, target) ==
    /\ target - POWER_JITTER_W <= x
    /\ x <= target + POWER_JITTER_W

\* usable_seconds of run a: the smaller of the recording's seconds and the
\* plan's total seconds
UsableSeconds(a) ==
    LET recording == Elapsed(a, Len(run_rows[a])) \div TimeDen + 1
    IN  IF recording < PlanTotal THEN recording ELSE PlanTotal

\* C11: usable_seconds is min(recording seconds, plan total seconds); the
\* dense array has exactly that many entries, each within the jitter of the
\* target of the segment that holds its second (the target itself without
\* jitter); a sample whose elapsed second is below usable_seconds receives
\* such a value for its second, and a sample at or beyond usable_seconds
\* receives exactly the last segment's target
C11_SegmentMapping ==
    \A a \in Powered :
        /\ run_usable_secs[a] = UsableSeconds(a)
        /\ Len(run_pw[a]) = UsableSeconds(a)
        /\ \A k \in 0..(UsableSeconds(a) - 1) :
             WithinJitter(run_pw[a][k + 1], TargetAt(k))
        /\ \A i \in 1..Len(run_rows[a]) :
             LET s == Elapsed(a, i) \div TimeDen
                 p == run_time_to_power[a][run_rows[a][i].ts]
             IN  IF s < UsableSeconds(a)
                 THEN WithinJitter(p, TargetAt(s))
                 ELSE p = SEGMENTS[Len(SEGMENTS)].target

\* under a plan of two segments with jitter, one sample lies in the second
\* segment and got a jittered value, another lies beyond the plan
C11_Witness ==
    \E a \in Powered :
        /\ Len(SEGMENTS) = 2
        /\ POWER_JITTER_W > 0
        /\ \E i \in 1..Len(run_rows[a]) :
             LET s == Elapsed(a, i) \div TimeDen
             IN  /\ SegStart(2) <= s
                 /\ s < UsableSeconds(a)
                 /\ run_time_to_power[a][run_rows[a][i].ts] # TargetAt(s)
        /\ \E i \in 1..Len(run_rows[a]) : Elapsed(a, i) \div TimeDen >= PlanTotal

\* C13: with an empty plan and a non-empty recording build_power_series
\* raises: the run gets no Time-to-Power Map and goes no further
C13_EmptyPlanRaises ==
    SEGMENTS = << >> =>
        \A a \in Runs :
            /\ pc[a] \in {"filled", "raised"}
            /\ run_time_to_power[a] = << >>
            /\ run_pw[a] = << >>

\* build_power_series raised on a recording of several samples
C13_Witness ==
    \E a \in Runs :
        /\ SEGMENTS = << >>
        /\ pc[a] = "raised"
        /\ Len(run_rows[a]) >= 2

\* the time step of sample i of run a in ticks: 1.0 s for the first sample
StepTicks(a, i) ==
    IF i = 1 THEN TimeDen ELSE run_rows[a][i].ts - run_rows[a][i - 1].ts

RECURSIVE TicksAfter(_, _, _)
\* the sum of the time steps of the samples j + 1 .. i
TicksAfter(a, j, i) == IF j >= i THEN 0 ELSE StepTicks(a, j + 1) + TicksAfter(a, j + 1, i)

\* the weight of sample j in the window of sample i: the newest sample's
\* whole time step, and of an older sample's time step the part that lies
\* inside the window
WindowWeight(a, j, i) ==
    IF j = i THEN StepTicks(a, i)
    ELSE LET room == cfg.smooth_window_s * TimeDen - TicksAfter(a, j, i)
             part == IF StepTicks(a, j) < room THEN StepTicks(a, j) ELSE room
         IN  IF part > 0 THEN part ELSE 0

RECURSIVE WindowSum(_, _, _)
\* sum(v_j * w_j) over the samples j .. i
WindowSum(a, j, i) ==
    IF j > i THEN RatOf(0)
    ELSE RatAdd(RatMul(run_v_raw[a][j], RatOf(WindowWeight(a, j, i))), WindowSum(a, j + 1, i))

RECURSIVE WindowTicks(_, _, _)
WindowTicks(a, j, i) == IF j > i THEN 0 ELSE WindowWeight(a, j, i) + WindowTicks(a, j + 1, i)

\* the samples inside the window of sample i
InWindow(a, i) == {j \in 1..i : j = i \/ WindowWeight(a, j, i) > 0}

\* C18 as claimed: every smoothed speed is sum(v_j * w_j) / sum(w_j) over
\* the raw speeds in the trailing window, w_j the part of each time step
\* inside the window; it lies between the smallest and the largest raw speed
\* in the window, and a constant raw speed is its own smoothed speed
C18_WeightedMean ==
    \A a \in Speeded :
        \A i \in 1..Len(run_rows[a]) :
            /\ WindowTicks(a, 1, i) > 0 =>
                 run_v_smooth[a][i] = RatDiv(WindowSum(a, 1, i), RatOf(WindowTicks(a, 1, i)))
            /\ \E j \in InWindow(a, i) : RatLeq(run_v_raw[a][j], run_v_smooth[a][i])
            /\ \E j \in InWindow(a, i) : RatLeq(run_v_smooth[a][i], run_v_raw[a][j])
            /\ (\A j \in 1..i : run_v_raw[a][j] = run_v_raw[a][1])
                   => run_v_smooth[a][i] = run_v_raw[a][1]

\* --------------------------------------------------- main() properties
\* what fill_missing_hr_and_cadence returns for the recording of run a
\* under the streams of the generators of cfg.SEED
FilledAlone(a) ==
    fill_missing_hr_and_cadence(file[a], cfg.HR_JITTER_BPM, cfg.CAD_JITTER_RPM,
                                cfg.CAD_EXTRA_JITTER, cfg.SEED,
                                twister[hr_seed(cfg.SEED)], twister[cad_seed(cfg.SEED)],
                                twister[extra_seed(cfg.SEED)])

\* what build_power_series returns for run a when the module-level generator
\* has not been drawn from before
PowerAlone(a) ==
    build_power_series(run_rows[a], SEGMENTS, POWER_JITTER_W, TheRandom(0),
                       twister[OsSeed]).time_to_power

\* C2 as claimed: two runs of the pipeline on the same recording with the
\* same seed have, stage by stage, the same output: the same rows, the same
\* Time-to-Power Map and the same speeds
C2_Reproducible ==
    \A a, b \in Runs :
        (file[a] = file[b] /\ pc[a] = pc[b]) =>
            /\ run_rows[a] = run_rows[b]
            /\ run_time_to_power[a] = run_time_to_power[b]
            /\ run_v_raw[a] = run_v_raw[b]
            /\ run_v_smooth[a] = run_v_smooth[b]

\* C3 as claimed: however two runs are interleaved, each run's filled
\* samples and Time-to-Power Map are those of the run made alone
C3_SameAsAlone ==
    \A a \in Runs :
        /\ pc[a] # "loaded" =>
             \A i \in 1..Len(run_rows[a]) :
                 /\ run_rows[a][i].hr = FilledAlone(a)[i].hr
                 /\ run_rows[a][i].cad = FilledAlone(a)[i].cad
        /\ a \in Powered => run_time_to_power[a] = PowerAlone(a)

\* ------------------------------------------ power_to_speed_flat properties
\* the calls of power_to_speed_flat that have returned
FlatReturned == IF flat = << >> THEN {} ELSE {flat.returned[i] : i \in 1..Len(flat.returned)}

\* a call is in its expansion loop or in its bisection loop
FlatSearching == flat # << >> /\ flat.pc \in {"expand", "bisect"}

\* a bisection step is taken from a bracket whose upper end the expansion
\* loop left with resistive_power(hi) >= p_wheel, on a road that does not descend
FlatBracketedStep ==
    /\ flat # << >>
    /\ flat.pc = "bisect"
    /\ flat'.pc = "bisect"
    /\ flat'.steps = flat.steps + 1
    /\ flat.par.grade >= 0
    /\ resistive_power(flat.hi0, flat.par) >= flat.p_wheel

\* C14 as claimed: with v_max <= 60 the upper end of the bracket the
\* bisection uses is at most 60 m/s, and so is every returned speed
C14_CappedBracket ==
    (flat # << >> /\ flat.par.v_max <= HI_CAP) =>
        /\ flat.pc = "bisect" => flat.hi <= HI_CAP * SpeedDen
        /\ \A r \in FlatReturned :
             /\ r.hi0 <= HI_CAP * SpeedDen
             /\ RatLeq(r.ret, RatOf(HI_CAP))

\* C15: for fixed parameters power_to_speed_flat is monotonically
\* non-decreasing in the power: of two calls, the one with the lower power
\* returns the lower or the same speed, also when the expansion loop left
\* the two calls different brackets
C15_Monotone ==
    \A r1, r2 \in FlatReturned :
        r1.p_w <= r2.p_w => RatLeq(r1.ret, r2.ret)

\* two calls with different powers returned different speeds from
\* different brackets
C15_Witness ==
    \E r1, r2 \in FlatReturned :
        /\ 0 < r1.p_w
        /\ r1.p_w < r2.p_w
        /\ r1.hi0 < r2.hi0
        /\ RatLt(r1.ret, r2.ret)

C17_ZeroWithoutSearch ==
    /\ FlatSearching => flat.p_w > 0
    /\ \A r \in FlatReturned :
         r.p_w <= 0 => (r.ret = RatOf(0) /\ r.expansions = 0 /\ r.steps = 0)

\* a call with power 0 and a call with a negative power returned, under
\* parameters without a bracket to start from
C17_Witness ==
    /\ flat # << >>
    /\ flat.par.v_max = 0
    /\ \E r1, r2 \in FlatReturned : r1.p_w = 0 /\ r2.p_w < 0

\* C27: every call of power_to_speed_flat returns: the expansion loop ends
\* after at most 8 passes, also from v_max = 0 and from a negative v_max,
\* whatever the power, and the bisection makes exactly 60 passes.
C27_Terminates ==
    /\ [](flat # << >> =>
            /\ flat.expansions <= 8
            /\ flat.steps <= BISECTION_STEPS
            /\ \A r \in FlatReturned :
                   r.p_w > 0 => (r.expansions <= 8 /\ r.steps = BISECTION_STEPS))
    /\ (FlatSearching ~> ~FlatSearching)

\* a call with a negative v_max and the largest power returned after 8
\* passes of the expansion loop and 60 of the bisection
C27_Witness ==
    /\ flat # << >>
    /\ flat.par.v_max < 0
    /\ \E r \in FlatReturned : r.expansions = 8 /\ r.steps = BISECTION_STEPS

\* ------------------------------------------------ direct-call properties
\* the call of fn has been made
Called(fn) == metric # << >> /\ metric.call.fn = fn /\ ~IsNone(metric.out)
\* what the call did
Outcome == metric.out[1]

\* the stages that take the Sample sequence
SampleStages ==
    {"fill_missing_hr_and_cadence", "build_power_series", "apply_speed_from_power",
     "summarize_for_connect"}

\* a stage has been called with no samples
CalledEmpty(fn) == Called(fn) /\ metric.call.rows = << >>

\* C12 as stated: each of fill_missing_hr_and_cadence, build_power_series,
\* apply_speed_from_power and summarize_for_connect raises when it is given
\* an empty Sample sequence.
C12_EveryStageRaises ==
    \A fn \in SampleStages : CalledEmpty(fn) => Outcome.raised # ""

\* C12, amended: on an empty Sample sequence build_power_series raises
\* RuntimeError and apply_speed_from_power raises IndexError, while
\* fill_missing_hr_and_cadence returns the empty list and
\* summarize_for_connect returns a summary whose distance, times and speeds
\* are all 0.
C12_EmptySamples ==
    /\ CalledEmpty("build_power_series") => Outcome.raised = "RuntimeError"
    /\ CalledEmpty("apply_speed_from_power") => Outcome.raised = "IndexError"
    /\ CalledEmpty("fill_missing_hr_and_cadence") => Outcome = Returns(<< >>)
    /\ CalledEmpty("summarize_for_connect") =>
           /\ Outcome.raised = ""
           /\ \A key \in {"distance_m", "total_s", "moving_s", "avg_v", "avg_v_moving", "v_max"} :
                  Outcome.value[key] = RatOf(0)

\* summarize_for_connect has answered for no samples and a power map that
\* is not empty
C12_Witness ==
    /\ CalledEmpty("summarize_for_connect")
    /\ DOMAIN metric.call.time_to_power # {}
    /\ Outcome.raised = ""

\* C19: no call of summarize_for_connect, compute_np_if_tss_and_p20,
\* apply_speed_from_power or estimate_kcal ends in a division fault, whatever
\* ftp_w, smooth_window_s, eff_metabolic and the timestamps are.
C19_NoDivisionFault ==
    \A fn \in {"summarize_for_connect", "compute_np_if_tss_and_p20",
               "apply_speed_from_power", "estimate_kcal"} :
        Called(fn) => Outcome.raised # "ZeroDivisionError"

\* the timestamps of the map all fall on whole seconds
WholeSeconds(time_to_power) == \A t \in DOMAIN time_to_power : t % TimeDen = 0

\* the latest timestamp of the map at or before `at`
LatestUpTo(time_to_power, at) == Max({t \in DOMAIN time_to_power : t <= at})

\* C20: for a map that is not empty and has whole-second timestamps,
\* _power_1s_array returns floor(last - first) + 1 entries, entry k is the
\* power of the latest sample at or before first + k seconds, and the final
\* entry is the last sample's power.
C20_ForwardFill ==
    (/\ Called("_power_1s_array")
     /\ DOMAIN metric.call.time_to_power # {}
     /\ WholeSeconds(metric.call.time_to_power)) =>
        LET time_to_power == metric.call.time_to_power
            first == Min(DOMAIN time_to_power)
            last == Max(DOMAIN time_to_power)
            P == Outcome.value
        IN  /\ Len(P) = ((last - first) \div TimeDen) + 1
            /\ \A k \in 0..(Len(P) - 1) :
                   P[k + 1] = time_to_power[LatestUpTo(time_to_power, first + k * TimeDen)]
            /\ P[Len(P)] = time_to_power[last]

\* three whole-second samples of different powers, the second held for
\* three seconds, have been resampled
C20_Witness ==
    /\ Called("_power_1s_array")
    /\ metric.call.time_to_power = (0 :> 1) @@ (TimeDen :> 2) @@ (4 * TimeDen :> 0)
    /\ Outcome.value = << 1, 2, 2, 2, 0 >>

\* the resampled array of the call's power map
Resampled == power_1s_array(metric.call.time_to_power)

\* the sum of the window of w entries of P that starts at index i (0-based)
RECURSIVE WindowTotal(_, _, _)
WindowTotal(P, i, w) ==
    IF w = 0 THEN 0
    ELSE IF w = 1 THEN P[i + 1]
    ELSE WindowTotal(P, i, w \div 2) + WindowTotal(P, i + w \div 2, w - w \div 2)

\* the entries of the array as a set
Entries(P) == {P[k] : k \in 1..Len(P)}

\* C21: with at least 1200 resampled entries P20 is the largest mean of the
\* windows of 1200 entries starting at 0 .. n - 1200, with fewer it is the
\* mean of the whole array, and in both cases min(P) <= P20 <= max(P).
C21_Best20 ==
    (Called("compute_np_if_tss_and_p20") /\ Resampled # << >>) =>
        LET P == Resampled
            n == Len(P)
            P20 == Outcome.value.P20
        IN  /\ n >= P20_WINDOW =>
                   /\ \E i \in 0..(n - P20_WINDOW) :
                          P20 = Norm(WindowTotal(P, i, P20_WINDOW), P20_WINDOW)
                   /\ \A i \in 0..(n - P20_WINDOW) :
                          RatLeq(Norm(WindowTotal(P, i, P20_WINDOW), P20_WINDOW), P20)
            /\ n < P20_WINDOW => P20 = Norm(WindowTotal(P, 0, n), n)
            /\ RatLeq(RatOf(Min(Entries(P))), P20)
            /\ RatLeq(P20, RatOf(Max(Entries(P))))

\* an array of 1201 entries whose first window is better than its last
C21_Witness ==
    /\ Called("compute_np_if_tss_and_p20")
    /\ Len(Resampled) = P20_WINDOW + 1
    /\ Resampled[1] = 1
    /\ Resampled[P20_WINDOW + 1] = 0
    /\ Outcome.value.P20 = Norm(1, P20_WINDOW)

\* the seconds from the first to the last timestamp of the map, rounded
\* down, and one
DurationOf(time_to_power) ==
    ((Max(DOMAIN time_to_power) - Min(DOMAIN time_to_power)) \div TimeDen) + 1

\* C22: IF = NP / FTP and TSS = duration_s * NP * IF / (FTP * 3600) * 100 for
\* FTP > 0, IF = TSS = 0 for FTP <= 0, all four results 0 for an empty map,
\* with duration_s = floor(last - first) + 1.
C22_IntensityAndStress ==
    Called("compute_np_if_tss_and_p20") =>
        LET time_to_power == metric.call.time_to_power
            ftp_w == metric.call.ftp_w
            r == Outcome.value
        IN  IF DOMAIN time_to_power = {}
            THEN r.NP_pow4 = RatOf(0) /\ r.IF_pow4 = RatOf(0)
                 /\ r.TSS_per_NP_IF = RatOf(0) /\ r.P20 = RatOf(0)
            ELSE IF ftp_w > 0
            THEN /\ RatMul(r.IF_pow4, RatOf(ftp_w * ftp_w * ftp_w * ftp_w)) = r.NP_pow4
                 /\ r.TSS_per_NP_IF = RatDiv(RatOf(DurationOf(time_to_power) * 100),
                                             RatOf(ftp_w * 3600))
            ELSE r.IF_pow4 = RatOf(0) /\ r.TSS_per_NP_IF = RatOf(0)

\* the metrics of a map of work done have been computed with ftp_w = 0
C22_Witness ==
    /\ Called("compute_np_if_tss_and_p20")
    /\ metric.call.ftp_w = 0
    /\ Outcome.value.NP_pow4 # RatOf(0)
    /\ Outcome.value.IF_pow4 = RatOf(0)

\* x is at most 1 and at least 1 - 1/25
NearOne(x) == x[1] <= x[2] /\ (x[2] - x[1]) * 25 <= x[2]

\* the map holds the same power, FTP, throughout at least 1200 seconds
ConstantAtFtp ==
    /\ Called("compute_np_if_tss_and_p20")
    /\ DOMAIN metric.call.time_to_power # {}
    /\ metric.call.ftp_w > 0
    /\ \A t \in DOMAIN metric.call.time_to_power :
           metric.call.time_to_power[t] = metric.call.ftp_w
    /\ Len(Resampled) >= P20_WINDOW

\* C23: for constant power P = FTP > 0 over at least 1200 s, NP is P within
\* 1 % (NP**4 within 4 % of P**4, never above), IF is 1 within 1 %, P20 is
\* exactly P and TSS is duration_hours * 100 times NP * IF / P; and for every
\* map NP is at most the largest entry of the resampled array.
C23_ConstantPower ==
    /\ ConstantAtFtp =>
           LET ftp_w == metric.call.ftp_w
               r == Outcome.value
           IN  /\ NearOne(RatDiv(r.NP_pow4, RatOf(ftp_w * ftp_w * ftp_w * ftp_w)))
               /\ NearOne(r.IF_pow4)
               /\ r.P20 = RatOf(ftp_w)
               /\ RatMul(r.TSS_per_NP_IF, RatOf(ftp_w)) = Norm(Len(Resampled), 36)
    /\ (Called("compute_np_if_tss_and_p20") /\ Resampled # << >>) =>
           LET top == Max(Entries(Resampled))
           IN  Outcome.value.NP_pow4[1] <= top * top * top * top * Outcome.value.NP_pow4[2]

\* constant power at FTP over 1201 seconds has been measured
C23_Witness ==
    /\ ConstantAtFtp
    /\ Len(Resampled) = P20_WINDOW + 1
    /\ Outcome.value.P20 = RatOf(metric.call.ftp_w)

\* the speed of sample i and the time since the sample before, neither
\* below 0
SpeedAt(rows, i) == RatMax(RatOf(0), speed_or_zero(rows[i].spd))
SinceLast(rows, i) == RatMax(RatOf(0), Norm(rows[i].ts - rows[i - 1].ts, TimeDen))

\* the sum over the samples 2 .. i of speed times time since the sample before
RECURSIVE Integrated(_, _)
Integrated(rows, i) ==
    IF i < 2 THEN RatOf(0)
    ELSE RatAdd(Integrated(rows, i - 1), RatMul(SpeedAt(rows, i), SinceLast(rows, i)))

\* C24: the summary's distance_m is the sum over the samples after the first
\* of max(0, speed) * max(0, delta-t), and the distance write_tcx integrates
\* up to the last trackpoint is the same number, so that the trackpoint's
\* DistanceMeters is the Lap's.
C24_DistanceRoundTrip ==
    (Called("write_tcx") /\ metric.call.rows # << >>) =>
        LET rows == metric.call.rows
            last == Outcome.value.Track[Len(rows)]
        IN  /\ metric.call.summary.distance_m = Integrated(rows, Len(rows))
            /\ last.dist_m = metric.call.summary.distance_m
            /\ last.DistanceMeters = Outcome.value.DistanceMeters

\* a recording with a slow, a backward and a repeated sample has been written
C24_Witness ==
    /\ Called("write_tcx")
    /\ Len(metric.call.rows) = 3
    /\ metric.call.rows[2].spd = << 3, 10 >>
    /\ metric.call.rows[2].ts > metric.call.rows[1].ts
    /\ metric.call.rows[3].spd = << -1, 1 >>
    /\ RatLt(RatOf(0), metric.call.summary.distance_m)

\* the work in watt-ticks of the samples at the timestamps in `keys`, each
\* at its power, or at 0 if that is below 0, until the next sample of the map
RECURSIVE WorkOf(_, _)
WorkOf(time_to_power, keys) ==
    IF keys = {} THEN 0
    ELSE LET t == Min(keys)
             later == {u \in DOMAIN time_to_power : u > t}
             held == IF later = {} THEN 0 ELSE Min(later) - t
             power == IF time_to_power[t] > 0 THEN time_to_power[t] ELSE 0
         IN  power * held + WorkOf(time_to_power, keys \ {t})

\* C25: estimate_kcal returns a non-negative integer, 0 for an empty and for
\* a single-sample map, and otherwise round(J / 1000 / eff_metabolic / 4.184)
\* for J the sum over consecutive samples of max(earlier power, 0) * delta-t.
C25_Calories ==
    Called("estimate_kcal") =>
        LET time_to_power == metric.call.time_to_power
            eff_metabolic == metric.call.eff_metabolic
            J == WorkOf(time_to_power, DOMAIN time_to_power)
        IN  /\ Outcome.raised = ""
            /\ Outcome.value \in Nat
            /\ Cardinality(DOMAIN time_to_power) <= 1 => Outcome.value = 0
            /\ eff_metabolic > 0 =>
                   Outcome.value = round(RatDiv(RatDiv(Norm(J, TimeDen * 1000),
                                                       Norm(eff_metabolic, 1000)),
                                                Norm(KCAL_E3, 1000)))

\* the smoothing loop of the call and its queue after the latest pass
Frame == metric.frame[1]
Queue == Frame.st.buf

\* the sum of the delta-t entries of the queue from entry j on
RECURSIVE QueuedTime(_, _)
QueuedTime(buf, j) ==
    IF j > Len(buf) THEN RatOf(0) ELSE RatAdd(buf[j][2], QueuedTime(buf, j + 1))

\* a sample has been processed by the smoothing loop
SampleProcessed ==
    /\ metric # << >>
    /\ metric.call.fn = "apply_speed_from_power"
    /\ ~IsNone(metric.frame)
    /\ Frame.i >= 1

\* C26: after each sample acc_time is the sum of the queue's delta-t
\* entries, the queue is not empty, acc_time <= smooth_window_s or the queue
\* holds one entry, and a cut of the oldest entry divided by a delta-t above 0.
C26_QueueInvariant ==
    SampleProcessed =>
        /\ Frame.st.acc_time = QueuedTime(Queue, 1)
        /\ Len(Queue) >= 1
        /\ \/ RatLeq(Frame.st.acc_time, RatOf(metric.call.smooth_window_s))
           \/ Len(Queue) = 1
        /\ ~IsNone(Frame.st.cut) => RatLt(RatOf(0), Frame.st.cut[1])

\* the pass for the third sample dropped the first entry and cut the second
C26_Witness ==
    /\ SampleProcessed
    /\ Frame.i = 3
    /\ Len(Queue) = 2
    /\ ~IsNone(Frame.st.cut)

\* the seconds from sample i - 1 to sample i
StepSeconds(rows, i) == Norm(rows[i].ts - rows[i - 1].ts, TimeDen)

\* the sum of the delta-t of the samples 2 .. i whose speed is above 0.5 m/s
RECURSIVE MovingSeconds(_, _)
MovingSeconds(rows, i) ==
    IF i < 2 THEN RatOf(0)
    ELSE RatAdd(MovingSeconds(rows, i - 1),
                IF RatLt(<< 1, 2 >>, speed_or_zero(rows[i].spd)) THEN StepSeconds(rows, i)
                ELSE RatOf(0))

\* C28: for rows in timestamp order total_s is the last timestamp minus the
\* first, moving_s is the sum of the delta-t of the samples after the first
\* whose speed is above 0.5 m/s, 0 <= moving_s <= total_s, v_max is at least
\* every sample's speed, the first included, avg_v is 0 when total_s <= 0 and
\* avg_v_moving is 0 when moving_s <= 0.
C28_TimeMetrics ==
    (Called("summarize_for_connect") /\ metric.call.rows # << >>) =>
        LET rows == metric.call.rows
            r == Outcome.value
        IN  /\ r.total_s = Norm(rows[Len(rows)].ts - rows[1].ts, TimeDen)
            /\ r.moving_s = MovingSeconds(rows, Len(rows))
            /\ RatLeq(RatOf(0), r.moving_s)
            /\ RatLeq(r.moving_s, r.total_s)
            /\ \A i \in 1..Len(rows) : RatLeq(speed_or_zero(rows[i].spd), r.v_max)
            /\ RatLeq(r.total_s, RatOf(0)) => r.avg_v = RatOf(0)
            /\ RatLeq(r.moving_s, RatOf(0)) => r.avg_v_moving = RatOf(0)

\* the first sample is the fastest, the second is slow, the third moves
C28_Witness ==
    /\ Called("summarize_for_connect")
    /\ Len(metric.call.rows) = 3
    /\ metric.call.rows[1].spd = << 2, 1 >>
    /\ metric.call.rows[2].spd = << 3, 10 >>
    /\ metric.call.rows[3].spd = << 2, 1 >>
    /\ Outcome.value.v_max = << 2, 1 >>
    /\ RatLt(RatOf(0), Outcome.value.moving_s)
    /\ RatLt(Outcome.value.moving_s, Outcome.value.total_s)

\* the two sequences have the same length and, sample by sample, the same
\* timestamps
Aligned(rows, new_rows) ==
    /\ Len(new_rows) = Len(rows)
    /\ \A i \in 1..Len(rows) : new_rows[i].ts = rows[i].ts

\* C30: whenever fill_missing_hr_and_cadence or apply_speed_from_power
\* returns (the speed stage raises on an empty recording, line 290), it
\* returns as many samples as it was given, in the same order with the same
\* timestamps;
\* the gap-filler leaves every speed as it is, the speed stage leaves every
\* heart rate and cadence as it is and sets the speed to the smoothed speed;
\* no step of a call changes the rows or the power map it was given.
C30_Alignment ==
    /\ [](/\ Called("fill_missing_hr_and_cadence") =>
                /\ Aligned(metric.call.rows, Outcome.value)
                /\ \A i \in 1..Len(metric.call.rows) :
                       Outcome.value[i].spd = metric.call.rows[i].spd
          /\ (Called("apply_speed_from_power") /\ Outcome.raised = "") =>
                /\ Aligned(metric.call.rows, Outcome.value)
                /\ \A i \in 1..Len(metric.call.rows) :
                       /\ Outcome.value[i].hr = metric.call.rows[i].hr
                       /\ Outcome.value[i].cad = metric.call.rows[i].cad
                       /\ Outcome.value[i].spd = Frame.st.v_smooth[i])
    /\ [][metric'.call = metric.call]_vars

\* three samples at different timestamps came back from the speed stage
C30_Witness ==
    /\ Called("apply_speed_from_power")
    /\ Outcome.raised = ""
    /\ Len(Outcome.value) = 3
    /\ Outcome.value[1].ts < Outcome.value[2].ts
    /\ Outcome.value[2].ts < Outcome.value[3].ts
    /\ Outcome.value[3].hr = Some(60)
====
